---- MODULE Spec2Model ----
(***************************************************************************)
(* knex-row: the Row wrapper (src/src/row.ts) and the query helpers        *)
(* findAll / find / countAll (src/src/query.ts) over a Knex connection.    *)
(*                                                                         *)
(* The database behind the connection is modelled as tables of records;    *)
(* a Knex query builder is a record of the clauses chained on it, and      *)
(* executing it interprets the clauses the way the SQL they compile to     *)
(* does (WHERE conjunction, ORDER BY, OFFSET/LIMIT, COUNT(col), UPDATE).   *)
(***************************************************************************)
EXTENDS Integers, Sequences, FiniteSets, TLC

(***************************************************************************)
(* Bounds of the model.                                                    *)
(***************************************************************************)
\* records seeded in table kansen under Spec (a prefix of kansenTable)
NumSeed == 3
\* Row objects the caller holds at once
MaxRows == 1
\* Row objects the caller holds at once under SpecKey
MaxKeyRows == 1
\* records inserted over a run (auto-increment values handed out)
MaxInserted == 2
\* Row objects the caller holds at once in the countAll scenario
MaxScenarioRows == 2
\* readings of the server clock (CURRENT_TIMESTAMP evaluations)
MaxClock == 2

(***************************************************************************)
(* JavaScript values: a tag plus a number or string payload.               *)
(***************************************************************************)
Undefined == [tag |-> "undefined", n |-> 0, s |-> ""]

Null == [tag |-> "null", n |-> 0, s |-> ""]

Num(i) == [tag |-> "number", n |-> i, s |-> ""]

Str(x) == [tag |-> "string", n |-> 0, s |-> x]

Bool(b) == [tag |-> "boolean", n |-> IF b THEN 1 ELSE 0, s |-> ""]

\* a Date holding the server time t
Date(t) == [tag |-> "date", n |-> t, s |-> ""]

\* connection.fn.now(): a Knex.Raw the database evaluates, not a timestamp
RawNow == [tag |-> "raw", n |-> 0, s |-> "CURRENT_TIMESTAMP"]

\* a Knex connection object (a plain connection or a transaction handle)
Conn(c) == [tag |-> "connection", n |-> 0, s |-> c]

\* a connection that has lost its link to the server
LostConn == Conn("lost")

\* JavaScript truthiness: undefined, null, false, 0 and "" are falsy
Truthy(v) ==
  ~ \/ v.tag \in {"undefined", "null"}
    \/ v.tag \in {"number", "boolean"} /\ v.n = 0
    \/ v.tag = "string" /\ v.s = ""

\* a destructuring default `x = d`: d replaces undefined only
Default(v, d) == IF v = Undefined THEN d ELSE v

\* a ?? b
Coalesce(a, b) == IF a \in {Undefined, Null} THEN b ELSE a

\* a || b
OrElse(a, b) == IF Truthy(a) THEN a ELSE b

\* obj[col] on a JavaScript object: undefined for a key that is absent
Prop(obj, col) == IF col \in DOMAIN obj THEN obj[col] ELSE Undefined

\* Object.assign with its arguments exchanged: on the keys both have,
\* target's values stay
ObjectAssignReversed(target, src) ==
  [c \in (DOMAIN target) \cup (DOMAIN src) |->
     IF c \in DOMAIN target THEN target[c] ELSE src[c]]

\* Object.assign(target, src): the keys of src are set on target,
\* undefined values included
ObjectAssign(target, src) ==
  [c \in (DOMAIN target) \cup (DOMAIN src) |->
     IF c \in DOMAIN src THEN src[c] ELSE target[c]]

(***************************************************************************)
(* Program constants.                                                      *)
(***************************************************************************)
ID_COL == "id"

TIME_CREATED_COL == "time_created"

TIME_UPDATED_COL == "time_updated"

TIME_DELETED_COL == "time_deleted"

DEFAULT_PAGINATION_LIMIT == 20

(***************************************************************************)
(* The database: table kansen of the test suite (without its name and      *)
(* created/updated columns), and a table admiral whose soft-delete column  *)
(* is called time_removed.                                                 *)
(***************************************************************************)
KansenRec(id, key, score) ==
  [id |-> Num(id), time_deleted |-> Null, key |-> Str(key), score |-> Num(score)]

kansenTable ==
  << KansenRec(1, "karlsruhe", 10),
     KansenRec(2, "leipzig", 20),
     KansenRec(3, "z23", 30),
     KansenRec(4, "prinz_eugen", 40),
     KansenRec(5, "odin", 45),
     KansenRec(6, "friedrich_der_grosse", 55) >>

admiralTable ==
  << [id |-> Num(1), time_removed |-> Null, key |-> Str("raeder")] >>

TableNames == {"kansen", "admiral"}

Conns == {Conn("conn"), Conn("trx")}

\* the columns of a table's schema
TableCols(t) ==
  IF t = "kansen" THEN {"id", "time_deleted", "key", "score"}
  ELSE {"id", "time_removed", "key"}

(***************************************************************************)
(* The Knex query builder: conn(tableName) and the methods chained on it.  *)
(* calls is the log of the builder methods called, in call order.          *)
(***************************************************************************)
\* one condition `col op val` of a WHERE clause
Cond(col, op, val) == [col |-> col, op |-> op, val |-> val]

\* conn(tableName)
NewQuery(conn, tableName) ==
  [conn |-> conn, table |-> tableName, method |-> "select",
   wheres |-> << >>, limit |-> -1, offset |-> 0, order |-> "",
   count |-> "", data |-> << >>, records |-> << >>, calls |-> << >>]

\* query.where(fn): the conditions the callback adds, as one group
QWhere(q, fn) ==
  [q EXCEPT !.wheres = Append(@, Cond(fn.col, fn.op, fn.val)),
            !.calls = Append(@, "where")]

\* query.whereNull(col)
QWhereNull(q, col) ==
  [q EXCEPT !.wheres = Append(@, Cond(col, "null", Null)),
            !.calls = Append(@, "whereNull")]

\* query.limit(n)
QLimit(q, n) == [q EXCEPT !.limit = n, !.calls = Append(@, "limit")]

\* query.offset(n)
QOffset(q, n) == [q EXCEPT !.offset = n, !.calls = Append(@, "offset")]

\* query.orderBy(col, "desc")
QOrderByDesc(q, col) == [q EXCEPT !.order = col, !.calls = Append(@, "orderBy")]

\* query.count({count: [col]})
QCount(q, col) == [q EXCEPT !.count = col, !.calls = Append(@, "count")]

RECURSIVE QWhereKeyFrom(_, _, _, _)
QWhereKeyFrom(q, cols, key, i) ==
  IF i > Len(cols) THEN q
  ELSE QWhereKeyFrom(
         [q EXCEPT !.wheres = Append(@, Cond(cols[i], "=", key[cols[i]]))],
         cols, key, i + 1)

\* query.where(obj): one equality per key of obj, in key order
QWhereKey(q, cols, key) ==
  [QWhereKeyFrom(q, cols, key, 1) EXCEPT !.calls = Append(@, "where")]

\* query.update(data)
QUpdate(q, data) ==
  [q EXCEPT !.method = "update", !.data = data, !.calls = Append(@, "update")]

\* query.insert(records): one record or an array of records
QInsert(q, records) ==
  [q EXCEPT !.method = "insert", !.records = records, !.calls = Append(@, "insert")]

\* query.delete()
QDelete(q) == [q EXCEPT !.method = "delete", !.calls = Append(@, "delete")]

(***************************************************************************)
(* Executing a query against a table.                                      *)
(***************************************************************************)
\* SQL comparison of a stored value: NULL satisfies only IS NULL, and an
\* equality with a null binding compiles to IS NULL
Matches(rec, c) ==
  LET v == rec[c.col] IN
  CASE c.op = "null" -> v = Null
    [] c.op = "=" -> IF c.val = Null THEN v = Null ELSE v = c.val
    [] c.op = ">=" -> v.tag = "number" /\ v.n >= c.val.n
    [] c.op = "odd" -> v.tag = "number" /\ v.n % 2 # 0
    [] OTHER -> FALSE

MatchesAll(rec, wheres) == \A i \in 1..Len(wheres) : Matches(rec, wheres[i])

\* the columns a query names, which the table must have
QueryCols(q) ==
  {q.wheres[i].col : i \in 1..Len(q.wheres)}
    \cup (IF q.order = "" THEN {} ELSE {q.order})
    \cup (IF q.count = "" THEN {} ELSE {q.count})
    \cup {c \in DOMAIN q.data : q.data[c] # Undefined}

\* "Unknown column" from the server
UnknownColumn(q) == ~ (QueryCols(q) \subseteq TableCols(q.table))

Filtered(q, table) == SelectSeq(table, LAMBDA rec : MatchesAll(rec, q.wheres))

RECURSIVE InsertDesc(_, _, _)
InsertDesc(sorted, rec, col) ==
  IF sorted = << >> THEN << rec >>
  ELSE IF rec[col].n > Head(sorted)[col].n THEN << rec >> \o sorted
  ELSE << Head(sorted) >> \o InsertDesc(Tail(sorted), rec, col)

RECURSIVE SortDesc(_, _)
SortDesc(recs, col) ==
  IF recs = << >> THEN << >>
  ELSE InsertDesc(SortDesc(SubSeq(recs, 1, Len(recs) - 1), col),
                  recs[Len(recs)], col)

Min(a, b) == IF a < b THEN a ELSE b

\* OFFSET o LIMIT l over an ordered result
Window(recs, offset, limit) ==
  LET from == offset + 1
      to == IF limit < 0 THEN Len(recs) ELSE Min(Len(recs), offset + limit)
  IN  IF from > to THEN << >> ELSE SubSeq(recs, from, to)

\* the records a SELECT returns, in result order
SelectRecs(q, table) ==
  LET f == Filtered(q, table)
      o == IF q.order = "" THEN f ELSE SortDesc(f, q.order)
  IN  Window(o, q.offset, q.limit)

\* COUNT(col): the matched records whose col is not NULL
CountRecs(q, table) ==
  Len(SelectSeq(Filtered(q, table), LAMBDA rec : rec[q.count] # Null))

(***************************************************************************)
(* Errors: a rejected promise or a thrown Error.                           *)
(***************************************************************************)
NoError == [kind |-> "", col |-> "", table |-> ""]

\* new Error(`Column '${col}' does not exist for table ${tableName}`)
ColumnError(col, tableName) ==
  [kind |-> "ColumnNotFound", col |-> col, table |-> tableName]

\* an error of the query's execution, passed through from the connection
QueryError(kind, tableName) == [kind |-> kind, col |-> "", table |-> tableName]

\* the outcome of a call: a returned value or a thrown error
Return(v) == [ok |-> TRUE, val |-> v, err |-> NoError]

Throw(e) == [ok |-> FALSE, val |-> Undefined, err |-> e]

(***************************************************************************)
(* Row (src/src/row.ts).  rowData is the object the Row was given; obj     *)
(* is the identity of that object (Rows built over the same object share   *)
(* it), and ctorConn remembers the connection given to the constructor.    *)
(***************************************************************************)
\* new Row(opts)
NewRow(opts, obj) ==
  LET idCol == Default(opts.idCol, Str(ID_COL)).s IN
  [initialConn |-> opts.conn,
   conn |-> opts.conn,
   tableName |-> opts.tableName,
   rowData |-> opts.rowData,
   idCol |-> idCol,
   timeCreatedCol |-> Default(opts.timeCreatedCol, Str(TIME_CREATED_COL)).s,
   timeUpdatedCol |-> Default(opts.timeUpdatedCol, Str(TIME_UPDATED_COL)).s,
   timeDeletedCol |-> Default(opts.timeDeletedCol, Str(TIME_DELETED_COL)).s,
   primaryCols |-> IF opts.primaryCols = << >> THEN << idCol >> ELSE opts.primaryCols,
   obj |-> obj,
   ctorConn |-> opts.conn]

\* the options object of a Row built with every default
RowOpts(conn, tableName, rowData) ==
  [conn |-> conn, tableName |-> tableName, rowData |-> rowData,
   idCol |-> Undefined, timeCreatedCol |-> Undefined,
   timeUpdatedCol |-> Undefined, timeDeletedCol |-> Undefined,
   primaryCols |-> << >>]

\* get connection() returning the connection the Row was built with
connectionInitial(r) == r.initialConn

\* get connection()
connection(r) == r.conn

\* set connection(value) without the fallback to initialConn
SetConnectionOfNoFallback(r, value) == [r EXCEPT !.conn = value]

\* set connection(value)
SetConnectionOf(r, value) == [r EXCEPT !.conn = OrElse(value, r.initialConn)]

\* isColumn(col) testing `!= null`, which takes null for missing
isColumnLoose(r, col) == Prop(r.rowData, col).tag \notin {"undefined", "null"}

\* isColumn(col)
isColumn(r, col) == Prop(r.rowData, col).tag # "undefined"

\* getColumn(col) without the check: undefined for a missing column
getColumnUnchecked(r, col) == Return(Prop(r.rowData, col))

\* getColumn(col)
getColumn(r, col) ==
  IF ~ isColumn(r, col) THEN Throw(ColumnError(col, r.tableName))
  ELSE Return(Prop(r.rowData, col))

\* get timeDeleted()
timeDeleted(r) == getColumn(r, r.timeDeletedCol)

\* get isDeleted()
isDeleted(r) ==
  IF timeDeleted(r).ok THEN Return(Bool(Truthy(timeDeleted(r).val)))
  ELSE timeDeleted(r)

\* the last position of cols whose column getColumn rejects, 0 if none
LastMissing(r, cols) ==
  LET bad == {i \in 1..Len(cols) : ~ isColumn(r, cols[i])} IN
  IF bad = {} THEN 0 ELSE CHOOSE i \in bad : \A j \in bad : i >= j

\* the first position of cols whose column getColumn rejects, 0 if none
FirstMissing(r, cols) ==
  LET bad == {i \in 1..Len(cols) : ~ isColumn(r, cols[i])} IN
  IF bad = {} THEN 0 ELSE CHOOSE i \in bad : \A j \in bad : i <= j

\* get primaryKey() returning a copy of the whole rowData
primaryKeyWholeRow(r) ==
  IF FirstMissing(r, r.primaryCols) # 0
  THEN getColumn(r, r.primaryCols[FirstMissing(r, r.primaryCols)])
  ELSE Return(r.rowData)

\* get primaryKey()
primaryKey(r) ==
  LET m == FirstMissing(r, r.primaryCols) IN
  IF m # 0 THEN getColumn(r, r.primaryCols[m])
  ELSE Return([c \in {r.primaryCols[i] : i \in 1..Len(r.primaryCols)} |->
                 getColumn(r, c).val])

\* get query() scoped by the identifier column, whatever primaryCols is
queryByIdCol(r) ==
  IF ~ primaryKey(r).ok THEN primaryKey(r)
  ELSE Return(QWhereKey(NewQuery(connection(r), r.tableName),
                        << r.idCol >>, [c \in {r.idCol} |-> Prop(r.rowData, c)]))

\* get query()
query(r) ==
  IF ~ primaryKey(r).ok THEN primaryKey(r)
  ELSE Return(QWhereKey(NewQuery(connection(r), r.tableName),
                        r.primaryCols, primaryKey(r).val))

\* a data argument is the sequence of its (key, value) entries in
\* Object.keys order
Entry(k, v) == [k |-> k, v |-> v]

Keys(data) == [i \in 1..Len(data) |-> data[i].k]

\* the object the entries denote
DataObj(data) ==
  [c \in {data[i].k : i \in 1..Len(data)} |->
     (CHOOSE e \in {data[i] : i \in 1..Len(data)} : e.k = c).v]

\* setColumns(data) without the key check
setColumnsQueryUnchecked(r, data) ==
  IF ~ primaryKey(r).ok THEN primaryKey(r)
  ELSE Return([QWhereKey(NewQuery(r.conn, r.tableName), r.primaryCols,
                         primaryKey(r).val)
                 EXCEPT !.method = "update", !.data = DataObj(data),
                        !.calls = Append(@, "update")])

\* setColumns(data) with the key check asking `key in rowData`, which a
\* property holding undefined passes
setColumnsQueryOwnKeys(r, data) ==
  LET bad == {i \in 1..Len(data) : data[i].k \notin DOMAIN r.rowData} IN
  IF bad # {}
  THEN Throw(ColumnError(data[CHOOSE i \in bad : \A j \in bad : i <= j].k, r.tableName))
  ELSE IF ~ query(r).ok THEN query(r)
  ELSE Return(QUpdate(query(r).val, DataObj(data)))

\* setColumns(data), up to the await: the key check, then this.query.update(data)
setColumnsQuery(r, data) ==
  LET m == FirstMissing(r, Keys(data)) IN
  IF m # 0 THEN Throw(ColumnError(data[m].k, r.tableName))
  ELSE IF ~ query(r).ok THEN query(r)
  ELSE Return(QUpdate(query(r).val, DataObj(data)))

\* setColumns(data) without the Object.assign after the await
setColumnsNoMerge(r, data) == r

\* setColumns(data), after the await: Object.assign(this.rowData, data)
setColumnsMerge(r, data) == [r EXCEPT !.rowData = ObjectAssign(@, DataObj(data))]

\* the data of setColumn(col, value) written {col: value}: the key is the
\* literal name "col"
setColumnDataLiteralKey(col, value) == << Entry("col", value) >>

\* the data of setColumn(col, value)
setColumnData(col, value) == << Entry(col, value) >>

\* the data of delete() with a timestamp taken on the client
deleteDataClientTime(r) == << Entry(r.timeDeletedCol, Date(0)) >>

\* the data of delete()
deleteData(r) == << Entry(r.timeDeletedCol, RawNow) >>

\* the data of restore() clearing the column with undefined
restoreDataUndefined(r) == << Entry(r.timeDeletedCol, Undefined) >>

\* the data of restore()
restoreData(r) == << Entry(r.timeDeletedCol, Null) >>

\* deletePermanently() on the table's query, without the primary key
deletePermanentlyQueryUnscoped(r) ==
  IF ~ query(r).ok THEN query(r)
  ELSE Return(QDelete(NewQuery(connection(r), r.tableName)))

\* deletePermanently(), up to the await: this.query.delete()
deletePermanentlyQuery(r) ==
  IF ~ query(r).ok THEN query(r) ELSE Return(QDelete(query(r).val))

(***************************************************************************)
(* Query helpers (src/src/query.ts).                                       *)
(***************************************************************************)
\* a `where` callback: absent, or one that adds `col op val` to the query
NoWhere == [given |-> FALSE, col |-> "", op |-> "", val |-> Undefined]

WhereFn(col, op, val) == [given |-> TRUE, col |-> col, op |-> op, val |-> val]

\* a `pagination` option: absent, or an object with optional page and limit
NoPagination == [given |-> FALSE, page |-> Undefined, limit |-> Undefined]

Pagination(page, limit) == [given |-> TRUE, page |-> page, limit |-> limit]

\* a `before` callback: "" when absent, else the name of the callback
\* before(query) { query.orderBy("id", "desc") }
ApplyBefore(before, q) ==
  LET called == [q EXCEPT !.calls = Append(@, "before")] IN
  IF before = "orderByIdDesc" THEN QOrderByDesc(called, ID_COL) ELSE called

\* if (where) query.where(where)
findAllWhere(q, opts) == IF opts.where.given THEN QWhere(q, opts.where) ELSE q

\* the soft-delete filter with the test of includeDeleted inverted
findAllSoftDeleteInverted(q, opts) ==
  IF Truthy(Default(opts.includeDeleted, Bool(FALSE)))
  THEN QWhereNull(q, Default(opts.includeDeletedCol, Str(TIME_DELETED_COL)).s)
  ELSE q

\* if (!includeDeleted) query.whereNull(includeDeletedCol)
findAllSoftDelete(q, opts) ==
  LET includeDeleted == Default(opts.includeDeleted, Bool(FALSE))
      includeDeletedCol == Default(opts.includeDeletedCol, Str(TIME_DELETED_COL))
  IN  IF ~ Truthy(includeDeleted) THEN QWhereNull(q, includeDeletedCol.s) ELSE q

\* the pagination with a 0-indexed page: offset(page * limit)
findAllPaginateFromZero(q, opts) ==
  IF opts.pagination.given
  THEN QOffset(QLimit(q, Default(opts.pagination.limit,
                                 Num(DEFAULT_PAGINATION_LIMIT)).n),
               Default(opts.pagination.page, Num(1)).n
                 * Default(opts.pagination.limit, Num(DEFAULT_PAGINATION_LIMIT)).n)
  ELSE q

\* if (pagination) query.limit(limit).offset((page - 1) * limit)
findAllPaginate(q, opts) ==
  LET limit == Default(opts.pagination.limit, Num(DEFAULT_PAGINATION_LIMIT)).n
      page == Default(opts.pagination.page, Num(1)).n
  IN  IF opts.pagination.given
      THEN QOffset(QLimit(q, limit), (page - 1) * limit)
      ELSE q

\* if (before) before(query)
findAllBefore(q, opts) ==
  IF opts.before # "" THEN ApplyBefore(opts.before, q) ELSE q

\* the select query of a findAll that calls before ahead of its own clauses
findAllQueryBeforeFirst(opts) ==
  findAllPaginate(
    findAllSoftDelete(
      findAllWhere(
        findAllBefore(NewQuery(opts.conn, opts.tableName), opts), opts), opts), opts)

\* the select query findAll builds, up to the await
findAllQuery(opts) ==
  findAllBefore(
    findAllPaginate(
      findAllSoftDelete(
        findAllWhere(NewQuery(opts.conn, opts.tableName), opts), opts), opts), opts)

\* the error a connection ends every query with, "" if it has none: a
\* connection without its link rejects whatever it is given
ConnError(q) == IF q.conn = LostConn THEN "ConnectionLost" ELSE ""

\* await query, for a select
ExecSelect(q, tables) ==
  IF ConnError(q) # "" THEN Throw(QueryError(ConnError(q), q.table))
  ELSE IF UnknownColumn(q) THEN Throw(QueryError("UnknownColumn", q.table))
  ELSE Return(SelectRecs(q, tables[q.table]))

\* findAll(opts) handing includeDeletedCol on to the Rows as timeDeletedCol
findAllPassingDeletedCol(opts, tables) ==
  IF ~ ExecSelect(findAllQuery(opts), tables).ok
  THEN ExecSelect(findAllQuery(opts), tables)
  ELSE Return([i \in 1..Len(ExecSelect(findAllQuery(opts), tables).val) |->
                 NewRow([RowOpts(opts.conn, opts.tableName,
                                 ExecSelect(findAllQuery(opts), tables).val[i])
                           EXCEPT !.timeDeletedCol = opts.includeDeletedCol], 0)])

\* findAll(opts) building every Row over the first record
findAllFirstRecord(opts, tables) ==
  IF UnknownColumn(findAllQuery(opts))
  THEN Throw(QueryError("UnknownColumn", opts.tableName))
  ELSE Return([i \in 1..Len(SelectRecs(findAllQuery(opts), tables[opts.tableName])) |->
                 NewRow(RowOpts(opts.conn, opts.tableName,
                                SelectRecs(findAllQuery(opts),
                                           tables[opts.tableName])[1]), 0)])

\* findAll(opts): every record wrapped as new Row({tableName, rowData, conn})
findAll(opts, tables) ==
  LET res == ExecSelect(findAllQuery(opts), tables) IN
  IF ~ res.ok THEN res
  ELSE Return([i \in 1..Len(res.val) |->
                 NewRow(RowOpts(opts.conn, opts.tableName, res.val[i]), 0)])

\* const [result] = array: undefined when the array is empty
First(array) == IF Len(array) = 0 THEN Undefined ELSE array[1]

\* find(opts) without `?? null`
findNoCoalesce(opts, tables) ==
  IF ~ findAll(opts, tables).ok THEN findAll(opts, tables)
  ELSE Return(First(findAll(opts, tables).val))

\* find(opts): const [result] = await findAll(opts); return result ?? null
find(opts, tables) ==
  LET all == findAll(opts, tables) IN
  IF ~ all.ok THEN all
  ELSE Return(Coalesce(First(all.val), Null))

\* if (where) query.where(where)
countAllWhere(q, opts) == IF opts.where.given THEN QWhere(q, opts.where) ELSE q

\* countAll without the soft-delete filter
countAllNoSoftDelete(q, opts) == q

\* if (!includeDeleted) query.whereNull(includeDeletedCol)
countAllSoftDelete(q, opts) ==
  LET includeDeleted == Default(opts.includeDeleted, Bool(FALSE))
      includeDeletedCol == Default(opts.includeDeletedCol, Str(TIME_DELETED_COL))
  IN  IF ~ Truthy(includeDeleted) THEN QWhereNull(q, includeDeletedCol.s) ELSE q

\* the count query countAll builds, up to the await
countAllQuery(opts) ==
  QCount(
    countAllSoftDelete(
      countAllWhere(NewQuery(opts.conn, opts.tableName), opts), opts),
    Default(opts.countBy, Str(ID_COL)).s)

\* countAll(opts): const [{ count }] = await query; return count
countAll(opts, tables) ==
  LET q == countAllQuery(opts) IN
  IF ConnError(q) # "" THEN Throw(QueryError(ConnError(q), q.table))
  ELSE IF UnknownColumn(q) THEN Throw(QueryError("UnknownColumn", q.table))
  ELSE Return(Num(CountRecs(q, tables[q.table])))

\* insertAll(tableName, rowDataArray, opts) handing over the first record only
insertAllQueryFirstOnly(tableName, rowDataArray, opts) ==
  QInsert(NewQuery(opts.conn, tableName), << rowDataArray[1] >>)

\* insertAll(tableName, rowDataArray, opts), up to the await:
\* conn(tableName).insert(rowDataArray)
insertAllQuery(tableName, rowDataArray, opts) ==
  QInsert(NewQuery(opts.conn, tableName), rowDataArray)

\* insertAll resolves to no value
insertAllReturn(response) == Undefined

\* insert(tableName, rowData, opts), up to the await:
\* conn(tableName).insert(rowData)
insertQuery(tableName, rowData, opts) ==
  QInsert(NewQuery(opts.conn, tableName), << rowData >>)

\* insert returning the number of identifiers in the response
insertReturnLength(response) == Num(Len(response))

\* const [id] = await ...; return id
insertReturn(response) == First(response)

(***************************************************************************)
(* The server executing an update.                                         *)
(***************************************************************************)
\* the value a column holds after `SET col = v`: a raw CURRENT_TIMESTAMP is
\* evaluated on the server, a bound value is stored
Stored(v, now) == IF v = RawNow THEN Date(now) ELSE v

\* Knex leaves the undefined values of an update's data out of the SET list
SetList(data) == {c \in DOMAIN data : data[c] # Undefined}

UsesNow(data) == \E c \in DOMAIN data : data[c] = RawNow

\* UPDATE table SET data, the WHERE left out
UpdateRecsUnscoped(q, table, now) ==
  [i \in 1..Len(table) |->
     [c \in DOMAIN table[i] |->
        IF c \in SetList(q.data) THEN Stored(q.data[c], now) ELSE table[i][c]]]

\* UPDATE table SET data WHERE wheres
UpdateRecs(q, table, now) ==
  [i \in 1..Len(table) |->
     IF MatchesAll(table[i], q.wheres)
     THEN [c \in DOMAIN table[i] |->
             IF c \in SetList(q.data) THEN Stored(q.data[c], now) ELSE table[i][c]]
     ELSE table[i]]

\* the error the execution of an update ends with, "" if it succeeds
UpdateError(q) ==
  IF SetList(q.data) = {} THEN "EmptyUpdate"
  ELSE IF ConnError(q) # "" THEN ConnError(q)
  ELSE IF UnknownColumn(q) THEN "UnknownColumn"
  ELSE ""

\* the identifier the server gives the next inserted record: the one the
\* record carries, else the table's auto-increment value
InsertedId(rec, next) ==
  IF Prop(rec, ID_COL) \in {Undefined, Null} THEN next ELSE rec[ID_COL].n

\* the stored record of an inserted one: a column the record leaves out or
\* gives as undefined takes its default (NULL), a raw expression is evaluated
InsertedRec(rec, cols, next, now) ==
  [c \in cols |->
     IF c = ID_COL THEN Num(InsertedId(rec, next))
     ELSE IF Prop(rec, c) = Undefined THEN Null
     ELSE Stored(rec[c], now)]

\* INSERT INTO table VALUES records, from the k-th on: the table and the
\* auto-increment value afterwards
RECURSIVE InsertFrom(_, _, _, _, _, _)
InsertFrom(table, cols, records, k, next, now) ==
  IF k > Len(records) THEN [table |-> table, next |-> next]
  ELSE LET id == InsertedId(records[k], next) IN
       InsertFrom(Append(table, InsertedRec(records[k], cols, next, now)),
                  cols, records, k + 1, IF id >= next THEN id + 1 ELSE next, now)

\* the driver's response to an insert: the identifier of the first
\* inserted record
InsertResponse(q, next) == << Num(InsertedId(q.records[1], next)) >>

\* the error the execution of an insert ends with, "" if it succeeds
InsertError(q) ==
  IF ConnError(q) # "" THEN ConnError(q)
  ELSE IF \E k \in 1..Len(q.records) : ~ (DOMAIN q.records[k] \subseteq TableCols(q.table))
  THEN "UnknownColumn"
  ELSE ""

\* DELETE FROM table WHERE wheres: the records that remain
DeleteRecs(q, table) == SelectSeq(table, LAMBDA rec : ~ MatchesAll(rec, q.wheres))

\* the error the execution of a delete ends with, "" if it succeeds
DeleteError(q) ==
  IF ConnError(q) # "" THEN ConnError(q)
  ELSE IF UnknownColumn(q) THEN "UnknownColumn"
  ELSE ""

(***************************************************************************)
(* State.                                                                  *)
(***************************************************************************)
VARIABLES
  db,       \* table name -> the table's records, in storage order
  rows,     \* the Row objects the caller holds
  clock,    \* the server's time
  autoInc,  \* table name -> the next value of its auto-increment identifier
  pending,  \* the setColumns calls made without awaiting, in call order:
            \* sent, executed by the server, or answered
  last      \* the caller's latest call: how it ended and what it returned

vars == << db, rows, clock, autoInc, pending, last >>

\* q is the sequence of the queries the call had the connection execute
Step(op, phase, row, arg, err, ret, q) ==
  [op |-> op, phase |-> phase, row |-> row, arg |-> arg, err |-> err, ret |-> ret,
   q |-> q]

\* the caller has taken the outcome of its latest call and is about to
\* make the next one
Idle == Step("idle", "", 0, << >>, NoError, << >>, << >>)

\* the caller keeps the Rows of array at the positions keep (in order)
RECURSIVE Kept(_, _, _)
Kept(held, array, keep) ==
  IF keep = << >> THEN held
  ELSE Kept(Append(held, [array[Head(keep)] EXCEPT !.obj = Len(held) + 1]),
            array, Tail(keep))

\* the ways to keep at most room Rows out of n: none, one, or the first two
Keeps(n, room) ==
  {<< >>} \cup (IF room >= 1 THEN {<< i >> : i \in 1..n} ELSE {})
          \cup (IF room >= 2 /\ n >= 2 THEN {<< 1, 2 >>} ELSE {})

(***************************************************************************)
(* The query helpers, each run from the call to the settling of its        *)
(* promise.                                                                *)
(***************************************************************************)
FindAll(opts, keep, cap) ==
  LET res == findAll(opts, db) IN
  /\ last = Idle
  /\ keep \in Keeps(IF res.ok THEN Len(res.val) ELSE 0, cap - Len(rows))
  /\ rows' = Kept(rows, res.val, keep)
  /\ last' = Step("findAll", IF res.ok THEN "resolved" ELSE "rejected",
                  Len(keep), opts, res.err, res.val, << findAllQuery(opts) >>)
  /\ UNCHANGED << db, clock, autoInc, pending >>

Find(opts, keep) ==
  LET res == find(opts, db) IN
  /\ last = Idle
  /\ keep => (res.ok /\ res.val # Null /\ Len(rows) < MaxRows)
  /\ rows' = IF keep THEN Kept(rows, << res.val >>, << 1 >>) ELSE rows
  /\ last' = Step("find", IF res.ok THEN "resolved" ELSE "rejected",
                  IF keep THEN 1 ELSE 0, opts, res.err, res.val,
                  << findAllQuery(opts) >>)
  /\ UNCHANGED << db, clock, autoInc, pending >>

CountAll(opts) ==
  LET res == countAll(opts, db) IN
  /\ last = Idle
  /\ last' = Step("countAll", IF res.ok THEN "resolved" ELSE "rejected",
                  0, opts, res.err, res.val, << countAllQuery(opts) >>)
  /\ UNCHANGED << db, rows, clock, autoInc, pending >>

(***************************************************************************)
(* Row: construction and the synchronous members.                          *)
(***************************************************************************)
\* new Row({conn, tableName, rowData}) over a fresh object
Construct(conn, tableName, rowData) ==
  /\ last = Idle
  /\ Len(rows) < MaxRows
  /\ rows' = Kept(rows, << NewRow(RowOpts(conn, tableName, rowData), 0) >>, << 1 >>)
  /\ last' = Step("new", "returned", Len(rows) + 1, rowData, NoError, << >>, << >>)
  /\ UNCHANGED << db, clock, autoInc, pending >>

\* row.connection = value
SetConnection(i, value) ==
  /\ last = Idle
  /\ rows' = [rows EXCEPT ![i] = SetConnectionOf(@, value)]
  /\ last' = Step("setConnection", "returned", i, value, NoError, << >>, << >>)
  /\ UNCHANGED << db, clock, autoInc, pending >>

\* row.connection
GetConnection(i) ==
  /\ last = Idle
  /\ last' = Step("connection", "returned", i, << >>, NoError, connection(rows[i]),
                  << >>)
  /\ UNCHANGED << db, rows, clock, autoInc, pending >>

\* row.isColumn(col)
IsColumn(i, col) ==
  /\ last = Idle
  /\ last' = Step("isColumn", "returned", i, col, NoError, isColumn(rows[i], col),
                  << >>)
  /\ UNCHANGED << db, rows, clock, autoInc, pending >>

\* row.getColumn(col)
GetColumn(i, col) ==
  LET res == getColumn(rows[i], col) IN
  /\ last = Idle
  /\ last' = Step("getColumn", IF res.ok THEN "returned" ELSE "threw",
                  i, col, res.err, res.val, << >>)
  /\ UNCHANGED << db, rows, clock, autoInc, pending >>

(***************************************************************************)
(* Row: setColumns and the calls built on it, run from the call to the     *)
(* settling of its promise: the key check and this.query.update(data),     *)
(* the server executing the update, then Object.assign.                    *)
(***************************************************************************)
\* rows after an Object.assign that reached the object of every Row
MergedEvery(i, data) == [j \in 1..Len(rows) |-> setColumnsMerge(rows[j], data)]

\* rows after Object.assign on the rowData object of row i
Merged(i, data) ==
  [j \in 1..Len(rows) |->
     IF rows[j].obj = rows[i].obj THEN setColumnsMerge(rows[j], data) ELSE rows[j]]

\* rows once the update has settled, with the Object.assign made only if
\* the update matched a record
SettledIfMatched(i, data, done) ==
  IF done /\ Filtered(setColumnsQuery(rows[i], data).val, db[rows[i].tableName]) # << >>
  THEN Merged(i, data) ELSE rows

\* rows once the update has settled, with the Object.assign made whether
\* or not the update succeeded
SettledAssigned(i, data, done) == Merged(i, data)

\* rows once the update has settled: Object.assign follows the await, so a
\* rejection leaves it out
Settled(i, data, done) == IF done THEN Merged(i, data) ELSE rows

\* arg is what the caller passed to the method
RunArg(op, i, data, arg) ==
  LET res == setColumnsQuery(rows[i], data)
      e == IF res.ok THEN UpdateError(res.val) ELSE ""
      done == res.ok /\ e = ""
  IN  /\ last = Idle
      /\ UsesNow(DataObj(data)) => clock <= MaxClock
      /\ db' = IF done THEN [db EXCEPT ![res.val.table] = UpdateRecs(res.val, @, clock)]
               ELSE db
      /\ clock' = IF done /\ UsesNow(DataObj(data)) THEN clock + 1 ELSE clock
      /\ UNCHANGED << autoInc, pending >>
      /\ rows' = Settled(i, data, done)
      /\ last' = Step(op,
                      IF ~ res.ok THEN "threw"
                      ELSE IF e # "" THEN "rejected" ELSE "resolved",
                      i, arg,
                      IF ~ res.ok THEN res.err
                      ELSE IF e # "" THEN QueryError(e, res.val.table) ELSE NoError,
                      << >>,
                      IF res.ok THEN << res.val >> ELSE << >>)

Run(op, i, data) == RunArg(op, i, data, data)

\* row.setColumns(data)
SetColumns(i, data) == Run("setColumns", i, data)

\* row.setColumn(col, value)
SetColumn(i, col, value) == Run("setColumn", i, setColumnData(col, value))

\* row.setColumn(col, value), the arguments kept as passed
SetColumnOf(i, col, value) ==
  RunArg("setColumn", i, setColumnData(col, value), << Str(col), value >>)

\* row.delete()
Delete(i) == Run("delete", i, deleteData(rows[i]))

\* row.restore()
Restore(i) == Run("restore", i, restoreData(rows[i]))

\* row.deletePermanently(), from the call to the settling of its promise
DeletePermanently(i) ==
  LET res == deletePermanentlyQuery(rows[i])
      e == IF res.ok THEN DeleteError(res.val) ELSE ""
      done == res.ok /\ e = ""
  IN  /\ last = Idle
      /\ db' = IF done THEN [db EXCEPT ![res.val.table] = DeleteRecs(res.val, @)]
               ELSE db
      /\ last' = Step("deletePermanently",
                      IF ~ res.ok THEN "threw"
                      ELSE IF e # "" THEN "rejected" ELSE "resolved",
                      i, << >>,
                      IF ~ res.ok THEN res.err
                      ELSE IF e # "" THEN QueryError(e, res.val.table) ELSE NoError,
                      << >>,
                      IF res.ok THEN << res.val >> ELSE << >>)
      /\ UNCHANGED << rows, clock, autoInc, pending >>

\* row.isDeleted
GetIsDeleted(i) ==
  LET res == isDeleted(rows[i]) IN
  /\ last = Idle
  /\ last' = Step("isDeleted", IF res.ok THEN "returned" ELSE "threw",
                  i, << >>, res.err, res.val, << >>)
  /\ UNCHANGED << db, rows, clock, autoInc, pending >>

\* row.primaryKey
GetPrimaryKey(i) ==
  LET res == primaryKey(rows[i]) IN
  /\ last = Idle
  /\ last' = Step("primaryKey", IF res.ok THEN "returned" ELSE "threw",
                  i, << >>, res.err, res.val, << >>)
  /\ UNCHANGED << db, rows, clock, autoInc, pending >>

\* row.query: the query is built and handed to the caller, not executed
GetQuery(i) ==
  LET res == query(rows[i]) IN
  /\ last = Idle
  /\ last' = Step("query", IF res.ok THEN "returned" ELSE "threw",
                  i, << >>, res.err, res.val, << >>)
  /\ UNCHANGED << db, rows, clock, autoInc, pending >>

\* new Row({conn, tableName, rowData, primaryCols}) over a fresh object the
\* caller filled in
ConstructWith(conn, tableName, rowData, primaryCols) ==
  /\ last = Idle
  /\ Len(rows) < MaxRows
  /\ rows' = Kept(rows, << NewRow([RowOpts(conn, tableName, rowData)
                                     EXCEPT !.primaryCols = primaryCols], 0) >>,
                  << 1 >>)
  /\ last' = Step("new", "returned", Len(rows) + 1, rowData, NoError, << >>, << >>)
  /\ UNCHANGED << db, clock, autoInc, pending >>

\* const [rowData] = await conn(tableName).where({key});
\* new Row({conn, tableName, rowData, primaryCols}), over at most cap Rows
ConstructKeyed(conn, tableName, j, primaryCols, cap) ==
  /\ last = Idle
  /\ Len(rows) < cap
  /\ j \in 1..Len(db[tableName])
  /\ rows' = Kept(rows, << NewRow([RowOpts(conn, tableName, db[tableName][j])
                                     EXCEPT !.primaryCols = primaryCols], 0) >>,
                  << 1 >>)
  /\ last' = Step("new", "returned", Len(rows) + 1, db[tableName][j], NoError,
                  << >>, << >>)
  /\ UNCHANGED << db, clock, autoInc, pending >>

\* an insert query run from the call to the settling of its promise; ret
\* is what the function returns for the driver's response
RunInsert(op, q, arg, ret) ==
  LET e == InsertError(q)
      t == q.table
      after == InsertFrom(db[t], TableCols(t), q.records, 1, autoInc[t], clock)
  IN  /\ last = Idle
      /\ db' = IF e = "" THEN [db EXCEPT ![t] = after.table] ELSE db
      /\ autoInc' = IF e = "" THEN [autoInc EXCEPT ![t] = after.next] ELSE autoInc
      /\ last' = Step(op, IF e = "" THEN "resolved" ELSE "rejected", 0, arg,
                      IF e = "" THEN NoError ELSE QueryError(e, t),
                      IF e = "" THEN ret ELSE Undefined, << q >>)
      /\ UNCHANGED << rows, clock, pending >>

\* insert(tableName, rowData, {conn})
Insert(tableName, rowData, conn) ==
  LET q == insertQuery(tableName, rowData, [conn |-> conn]) IN
  RunInsert("insert", q, << rowData >>, insertReturn(InsertResponse(q, autoInc[tableName])))

\* insertAll(tableName, rowDataArray, {conn})
InsertAll(tableName, rowDataArray, conn) ==
  LET q == insertAllQuery(tableName, rowDataArray, [conn |-> conn]) IN
  RunInsert("insertAll", q, rowDataArray,
            insertAllReturn(InsertResponse(q, autoInc[tableName])))

\* the caller takes the outcome in `last` and goes on
Continue ==
  /\ last # Idle
  /\ last' = Idle
  /\ UNCHANGED << db, rows, clock, autoInc, pending >>

(***************************************************************************)
(* Row: setColumns and the calls built on it, step by step, for callers    *)
(* that do not await one call before making the next: the synchronous part *)
(* up to the await, the server executing the update, and the continuation  *)
(* after the await.                                                        *)
(***************************************************************************)
\* the calls of the log that are past the stages given
Past(stages) == {k \in 1..Len(pending) : pending[k].stage \notin stages}

\* no query
NoQuery == NewQuery(Undefined, "")

\* the log entry of a call whose query q went out: conn and key are the
\* Row's connection and primary key as the call found them, ran is the
\* query the server executed
Sent(op, i, data, q) ==
  [op |-> op, row |-> i, data |-> data, q |-> q,
   conn |-> connection(rows[i]), key |-> primaryKey(rows[i]).val,
   stage |-> "sent", err |-> "", commit |-> 0, matched |-> 0, answer |-> 0,
   ran |-> NoQuery, open |-> Past({"answered"})]

\* the key check and this.query.update(data): the update is sent, or the
\* call ends with the column error
Call(op, i, data, cap) ==
  LET res == setColumnsQuery(rows[i], data) IN
  /\ last = Idle
  /\ Len(pending) < cap
  /\ pending' = IF res.ok THEN Append(pending, Sent(op, i, data, res.val)) ELSE pending
  /\ last' = IF res.ok THEN last
             ELSE Step(op, "threw", i, data, res.err, << >>, << >>)
  /\ UNCHANGED << db, rows, clock, autoInc >>

\* deletePermanently(), up to the await: this.query.delete() is sent
CallDeletePermanently(i, cap) ==
  LET res == deletePermanentlyQuery(rows[i]) IN
  /\ last = Idle
  /\ Len(pending) < cap
  /\ pending' = IF res.ok
                THEN Append(pending, Sent("deletePermanently", i, << >>, res.val))
                ELSE pending
  /\ last' = IF res.ok THEN last
             ELSE Step("deletePermanently", "threw", i, << >>, res.err, << >>, << >>)
  /\ UNCHANGED << db, rows, clock, autoInc >>

\* the query of the k-th call built when the server gets to it, from the
\* Row as it is by then
QueryRunLate(k) ==
  IF pending[k].op = "deletePermanently"
  THEN deletePermanentlyQuery(rows[pending[k].row]).val
  ELSE setColumnsQuery(rows[pending[k].row], pending[k].data).val

\* the query of the k-th call that the server executes: the builder the
\* call made, this.query being read before the await
QueryRun(k) == pending[k].q

\* the server executes the k-th call's update or delete
Execute(k) ==
  LET q == QueryRun(k)
      e == IF q.method = "delete" THEN DeleteError(q) ELSE UpdateError(q)
  IN  /\ last = Idle
      /\ pending[k].stage = "sent"
      /\ UsesNow(q.data) => clock <= MaxClock
      /\ db' = IF e # "" THEN db
               ELSE IF q.method = "delete"
               THEN [db EXCEPT ![q.table] = DeleteRecs(q, @)]
               ELSE [db EXCEPT ![q.table] = UpdateRecs(q, @, clock)]
      /\ clock' = IF e = "" /\ UsesNow(q.data) THEN clock + 1 ELSE clock
      /\ pending' = [pending EXCEPT ![k] =
                       [@ EXCEPT !.stage = "executed", !.err = e, !.ran = q,
                                 !.commit = Cardinality(Past({"sent"})) + 1,
                                 !.matched = IF e = "" THEN Len(Filtered(q, db[q.table]))
                                             ELSE 0]]
      /\ UNCHANGED << rows, autoInc, last >>

\* the k-th call's promise settles: Object.assign(this.rowData, data) after
\* an update, or the rejection passed on
Respond(k) ==
  LET c == pending[k] IN
  /\ last = Idle
  /\ c.stage = "executed"
  /\ rows' = IF c.op = "deletePermanently" THEN rows
             ELSE Settled(c.row, c.data, c.err = "")
  /\ pending' = [pending EXCEPT ![k] =
                   [@ EXCEPT !.stage = "answered",
                             !.answer = Cardinality(Past({"sent", "executed"})) + 1]]
  /\ last' = Step(c.op, IF c.err = "" THEN "resolved" ELSE "rejected", c.row, c.data,
                  IF c.err = "" THEN NoError ELSE QueryError(c.err, c.q.table),
                  << >>, << c.ran >>)
  /\ UNCHANGED << db, clock, autoInc >>

(***************************************************************************)
(* Inputs the callers draw from.                                           *)
(***************************************************************************)
WhereFns ==
  {NoWhere, WhereFn("score", ">=", Num(20)), WhereFn("key", "=", Str("z23"))}

Paginations ==
  {NoPagination, Pagination(Undefined, Undefined), Pagination(Undefined, Num(2)),
   Pagination(Num(2), Num(2)), Pagination(Num(2), Num(1)),
   Pagination(Num(3), Num(1)), Pagination(Num(2), Undefined)}

SelectOpts(conn, tableName, where, includeDeleted, includeDeletedCol, before) ==
  [conn |-> conn, tableName |-> tableName, where |-> where,
   includeDeleted |-> includeDeleted, includeDeletedCol |-> includeDeletedCol,
   before |-> before, pagination |-> NoPagination, countBy |-> Undefined]

\* the options of the select helpers: the soft-delete options on both
\* tables, and an ordering on table kansen
FindOpts ==
  {SelectOpts(Conn("conn"), t, w, d, c, "") :
     t \in TableNames, w \in {NoWhere, WhereFn("score", ">=", Num(20))},
     d \in {Undefined, Bool(FALSE), Bool(TRUE)},
     c \in {Undefined, Str("time_removed")}}
  \cup
  {SelectOpts(Conn("trx"), "kansen", w, d, Undefined, "orderByIdDesc") :
     w \in WhereFns, d \in {Undefined, Bool(TRUE)}}

\* findAll takes a pagination as well
FindAllOpts ==
  FindOpts \cup
  {[SelectOpts(Conn("trx"), "kansen", NoWhere, d, Undefined, b)
      EXCEPT !.pagination = p] :
     d \in {Undefined, Bool(TRUE)}, b \in {"", "orderByIdDesc"},
     p \in Paginations}
  \cup
  {[SelectOpts(Conn("conn"), "kansen", WhereFn("score", ">=", Num(20)), d,
               Undefined, "orderByIdDesc")
      EXCEPT !.pagination = Pagination(Num(2), Num(1))] :
     d \in {Undefined, Bool(TRUE)}}

\* countAll takes a countBy; a pagination or a before passed to it is not read
CountAllOpts ==
  FindOpts \cup
  {[SelectOpts(Conn("conn"), "kansen", w, d, Undefined, "")
      EXCEPT !.countBy = Str("time_deleted"), !.pagination = p] :
     w \in {NoWhere, WhereFn("score", ">=", Num(20))},
     d \in {Undefined, Bool(TRUE)},
     p \in {NoPagination, Pagination(Undefined, Num(1))}}

\* the rowData of the test suite's createTestRow
testRowData ==
  [id |-> Num(252), time_deleted |-> Date(0), key |-> Str("graf_zeppelin"),
   score |-> Num(40)]

\* a caller-built record with a field left undefined
draftRowData == [id |-> Num(2), key |-> Str("leipzig"), score |-> Undefined]

RowDatas == {testRowData, draftRowData}

\* the data of the setColumns calls
SetColumnsDatas ==
  { << Entry("score", Num(40)) >>,
    << Entry("status", Str("ok")) >>,
    << Entry("score", Num(40)), Entry("status", Str("ok")) >>,
    << Entry("key", Undefined), Entry("score", Num(40)) >>,
    << Entry("score", Undefined) >> }

\* the values assigned to Row.connection
ConnectionValues == Conns \cup {Null, Undefined}

Columns == {"id", "time_deleted", "key", "score", "status"}

\* the options of the find calls whose Row the caller keeps
RowFindOpts ==
  {SelectOpts(conn, "kansen", w, Bool(TRUE), Undefined, "") :
     conn \in Conns,
     w \in {WhereFn("key", "=", Str("z23")), WhereFn("score", ">=", Num(20))}}
  \cup {SelectOpts(Conn("conn"), "admiral", NoWhere, Bool(TRUE), Undefined, "")}

(***************************************************************************)
(* Spec: a Row the caller fetched or built, and the calls on it.           *)
(***************************************************************************)
Init ==
  /\ db = [t \in TableNames |->
             IF t = "kansen" THEN SubSeq(kansenTable, 1, NumSeed) ELSE admiralTable]
  /\ rows = << >>
  /\ clock = 1
  /\ autoInc = [t \in TableNames |-> Len(db[t]) + 1]
  /\ pending = << >>
  /\ last = Idle

Next ==
  \/ \E opts \in RowFindOpts, keep \in BOOLEAN : Find(opts, keep)
  \/ \E conn \in Conns, rowData \in RowDatas : Construct(conn, "kansen", rowData)
  \/ \E i \in 1..Len(rows), value \in ConnectionValues : SetConnection(i, value)
  \/ \E i \in 1..Len(rows) : GetConnection(i)
  \/ \E i \in 1..Len(rows), col \in Columns : IsColumn(i, col)
  \/ \E i \in 1..Len(rows), col \in Columns : GetColumn(i, col)
  \/ \E i \in 1..Len(rows), data \in SetColumnsDatas : SetColumns(i, data)
  \/ \E i \in 1..Len(rows) : Delete(i)
  \/ \E i \in 1..Len(rows) : Restore(i)
  \/ Continue

Spec == Init /\ [][Next]_vars

(***************************************************************************)
(* SpecQuery: the query helpers over a table some of whose records were    *)
(* soft-deleted earlier, or are soft-deleted meanwhile through a Row that  *)
(* find returned.                                                          *)
(***************************************************************************)
\* table kansen with the seeded records at the positions gone soft-deleted
SeedWithDeleted(gone) ==
  [i \in 1..NumSeed |->
     IF i \in gone THEN [kansenTable[i] EXCEPT !.time_deleted = Date(0)]
     ELSE kansenTable[i]]

InitQuery ==
  /\ \E gone \in SUBSET (1..NumSeed) :
       db = [t \in TableNames |->
               IF t = "kansen" THEN SeedWithDeleted(gone) ELSE admiralTable]
  /\ rows = << >>
  /\ clock = 1
  /\ autoInc = [t \in TableNames |-> Len(db[t]) + 1]
  /\ pending = << >>
  /\ last = Idle

NextQuery ==
  \/ \E opts \in FindAllOpts : FindAll(opts, << >>, MaxRows)
  \/ \E opts \in FindOpts, keep \in BOOLEAN : Find(opts, keep)
  \/ \E opts \in CountAllOpts : CountAll(opts)
  \/ \E i \in 1..Len(rows) : Delete(i)
  \/ Continue

SpecQuery == InitQuery /\ [][NextQuery]_vars

(***************************************************************************)
(* SpecKansen: the countAll scenario of the test suite, over the six       *)
(* seeded records: the caller fetches the records with an odd score and    *)
(* soft-deletes (or restores) them, and counts.                            *)
(***************************************************************************)
OddScore == WhereFn("score", "odd", Null)

KansenFindAllOpts ==
  {SelectOpts(Conn("conn"), "kansen", OddScore, d, Undefined, "") :
     d \in {Undefined, Bool(TRUE)}}

KansenCountAllOpts ==
  {[SelectOpts(Conn("conn"), "kansen", w, d, Undefined, b)
      EXCEPT !.countBy = c, !.pagination = p] :
     w \in {NoWhere, WhereFn("score", ">=", Num(30)),
            WhereFn("score", ">=", Num(20))},
     d \in {Undefined, Bool(TRUE)},
     b \in {"", "orderByIdDesc"},
     c \in {Undefined, Str("time_deleted")},
     p \in {NoPagination, Pagination(Undefined, Num(1))}}

InitKansen ==
  /\ db = [t \in TableNames |-> IF t = "kansen" THEN kansenTable ELSE admiralTable]
  /\ rows = << >>
  /\ clock = 1
  /\ autoInc = [t \in TableNames |-> Len(db[t]) + 1]
  /\ pending = << >>
  /\ last = Idle

NextKansen ==
  \/ \E opts \in KansenFindAllOpts, keep \in Keeps(Len(kansenTable), MaxScenarioRows) :
       FindAll(opts, keep, MaxScenarioRows)
  \/ \E opts \in KansenCountAllOpts : CountAll(opts)
  \/ \E i \in 1..Len(rows) : Delete(i)
  \/ \E i \in 1..Len(rows) : Restore(i)
  \/ Continue

SpecKansen == InitKansen /\ [][NextKansen]_vars

(***************************************************************************)
(* SpecKey: Rows built over fetched records with the default or a custom   *)
(* primary key, and the calls that go through Row.query.                   *)
(***************************************************************************)
\* the primaryCols options: absent, or one column
PrimaryColsOpts == { << >>, << "key" >>, << "score" >> }

\* the data of the setColumns calls: the test's change of the key, a score
\* another record has, and a key cleared with undefined
KeyDatas ==
  { << Entry("key", Str("leipzig_retrofit")), Entry("score", Num(30)) >>,
    << Entry("score", Num(20)) >>,
    << Entry("key", Undefined), Entry("score", Num(20)) >> }

KeyFindOpts ==
  {SelectOpts(Conn("conn"), "kansen", w, d, Undefined, "") :
     w \in {NoWhere, WhereFn("key", "=", Str("leipzig_retrofit"))},
     d \in {Undefined, Bool(TRUE)}}

NextKey ==
  \/ \E j \in 1..NumSeed, pc \in PrimaryColsOpts :
       ConstructKeyed(Conn("conn"), "kansen", j, pc, MaxKeyRows)
  \/ \E opts \in KeyFindOpts : FindAll(opts, << >>, MaxKeyRows)
  \/ \E i \in 1..Len(rows) : GetPrimaryKey(i)
  \/ \E i \in 1..Len(rows), data \in KeyDatas : SetColumns(i, data)
  \/ \E i \in 1..Len(rows) : DeletePermanently(i)
  \/ Continue

SpecKey == Init /\ [][NextKey]_vars

(***************************************************************************)
(* SpecInsert: records inserted into table kansen, found again, and        *)
(* possibly removed through the Row found.                                 *)
(***************************************************************************)
\* the records given to insert: the test's, one with a value left
\* undefined, one already soft-deleted, one with a raw server time, and one
\* naming a column the table does not have
InsertRowDatas ==
  { [key |-> Str("u_47"), score |-> Num(40)],
    [key |-> Str("u_47"), score |-> Undefined, time_deleted |-> Null],
    [key |-> Str("u_47"), time_deleted |-> Date(0)],
    [key |-> Str("u_47"), time_deleted |-> RawNow],
    [key |-> Str("u_47"), status |-> Str("ok")] }

\* the arrays given to insertAll: the test's, and one whose second record
\* is already soft-deleted
InsertArrays ==
  { << [key |-> Str("mainz"), score |-> Num(45)],
       [key |-> Str("roon"), score |-> Num(45)] >>,
    << [key |-> Str("mainz"), score |-> Num(45)],
       [key |-> Str("roon"), time_deleted |-> Date(0)] >>,
    << [key |-> Str("mainz"), status |-> Str("ok")] >> }

InsertFindOpts ==
  {SelectOpts(Conn("conn"), "kansen", WhereFn("key", "=", Str(k)), d, Undefined, "") :
     k \in {"u_47", "mainz", "roon"}, d \in {Undefined, Bool(TRUE)}}

\* the identifiers still to hand out allow n more records
CanInsert(n) == autoInc["kansen"] + n - 1 <= NumSeed + MaxInserted

NextInsert ==
  \/ \E rowData \in InsertRowDatas, conn \in Conns :
       CanInsert(1) /\ Insert("kansen", rowData, conn)
  \/ \E array \in InsertArrays :
       CanInsert(Len(array)) /\ InsertAll("kansen", array, Conn("conn"))
  \/ \E opts \in InsertFindOpts, keep \in BOOLEAN : Find(opts, keep)
  \/ \E i \in 1..Len(rows) : DeletePermanently(i)
  \/ Continue

SpecInsert == Init /\ [][NextInsert]_vars

(***************************************************************************)
(* SpecConcurrent: Rows over one record, each fetched into its own object  *)
(* or built over the object of another, and calls on them that are not     *)
(* awaited before the next is made.                                        *)
(***************************************************************************)
MaxCalls == 2

\* the record the Rows are built over
ConcRecord == CHOOSE j \in 1..NumSeed : kansenTable[j].key = Str("leipzig")

\* a Row of that record, with the primaryCols given
ConcRow(primaryCols) ==
  NewRow([RowOpts(Conn("conn"), "kansen", kansenTable[ConcRecord])
            EXCEPT !.primaryCols = primaryCols], 0)

\* the two Rows: the record fetched twice, each time into an object of its
\* own, or one object the caller fetched and built both Rows over
ConcRows ==
  {Kept(<< >>, << ConcRow(pc), ConcRow(pc) >>, << 1, 2 >>) :
     pc \in {<< >>, << "key" >>}}
  \cup {[i \in 1..Len(rs) |-> [rs[i] EXCEPT !.obj = rs[1].obj]] :
          rs \in {Kept(<< >>, << ConcRow(<< >>), ConcRow(<< >>) >>, << 1, 2 >>)}}

\* the data of the setColumns calls: a score, the test's change of the
\* key, and a column the record does not have
ConcDatas ==
  { << Entry("score", Num(40)) >>,
    << Entry("key", Str("leipzig_retrofit")), Entry("score", Num(30)) >>,
    << Entry("status", Str("ok")) >> }

ConcFindOpts ==
  SelectOpts(Conn("conn"), "kansen", WhereFn("score", ">=", Num(20)), Undefined,
             Undefined, "")

InitConcurrent ==
  /\ db = [t \in TableNames |->
             IF t = "kansen" THEN SubSeq(kansenTable, 1, NumSeed) ELSE admiralTable]
  /\ rows \in ConcRows
  /\ clock = 1
  /\ autoInc = [t \in TableNames |-> Len(db[t]) + 1]
  /\ pending = << >>
  /\ last = Idle

\* the first Row's caller also clears a score with undefined and deletes,
\* the second's restores
NextConcurrent ==
  \/ FindAll(ConcFindOpts, << >>, Len(rows))
  \/ \E i \in 1..Len(rows), data \in ConcDatas : Call("setColumns", i, data, MaxCalls)
  \/ Call("setColumn", 1, setColumnData("score", Undefined), MaxCalls)
  \/ Call("delete", 1, deleteData(rows[1]), MaxCalls)
  \/ Call("restore", Len(rows), restoreData(rows[Len(rows)]), MaxCalls)
  \/ \E k \in 1..Len(pending) : Execute(k)
  \/ \E k \in 1..Len(pending) : Respond(k)
  \/ Continue

SpecConcurrent == InitConcurrent /\ [][NextConcurrent]_vars

(***************************************************************************)
(* SpecFault: every operation that queries, made over a working connection *)
(* or over one that has lost its link, also by a Row whose connection was  *)
(* replaced after it was fetched.                                          *)
(***************************************************************************)
FaultConns == {Conn("conn"), LostConn}

\* the options of the select helpers: a where on a column the table has,
\* and one on a column it does not have
FaultFindOpts ==
  {SelectOpts(conn, "kansen", w, Undefined, Undefined, "") :
     conn \in FaultConns,
     w \in {WhereFn("key", "=", Str("z23")), WhereFn("status", "=", Str("ok"))}}

\* the data of the setColumns calls: a score, and a score left undefined
FaultDatas == { << Entry("score", Num(40)) >>, << Entry("score", Undefined) >> }

FaultRecord == [key |-> Str("u_47"), score |-> Num(40)]

NextFault ==
  \/ \E opts \in FaultFindOpts : FindAll(opts, << >>, MaxRows)
  \/ \E opts \in FaultFindOpts, keep \in BOOLEAN : Find(opts, keep)
  \/ \E opts \in FaultFindOpts : CountAll(opts)
  \/ \E conn \in FaultConns : CanInsert(1) /\ Insert("kansen", FaultRecord, conn)
  \/ \E conn \in FaultConns :
       CanInsert(1) /\ InsertAll("kansen", << FaultRecord >>, conn)
  \/ \E i \in 1..Len(rows), value \in {LostConn, Undefined} : SetConnection(i, value)
  \/ \E i \in 1..Len(rows), data \in FaultDatas : SetColumns(i, data)
  \/ \E i \in 1..Len(rows) : SetColumn(i, "score", Num(45))
  \/ \E i \in 1..Len(rows) : Delete(i)
  \/ \E i \in 1..Len(rows) : Restore(i)
  \/ \E i \in 1..Len(rows) : DeletePermanently(i)
  \/ Continue

SpecFault == Init /\ [][NextFault]_vars

(***************************************************************************)
(* SpecSetColumn: setColumn and setColumns with one entry, on a fetched    *)
(* Row or on one built over a record with a field left undefined.          *)
(***************************************************************************)
SetColumnCols == {"score", "status", "key"}

SetColumnValues == {Num(40), Null, Undefined}

NextSetColumn ==
  \/ \E opts \in RowFindOpts : Find(opts, TRUE)
  \/ Construct(Conn("conn"), "kansen", draftRowData)
  \/ \E i \in 1..Len(rows), col \in SetColumnCols, value \in SetColumnValues :
       SetColumnOf(i, col, value)
  \/ \E i \in 1..Len(rows), col \in SetColumnCols, value \in SetColumnValues :
       SetColumns(i, << Entry(col, value) >>)
  \/ Continue

SpecSetColumn == Init /\ [][NextSetColumn]_vars

(***************************************************************************)
(* SpecPrimary: Rows a caller built with the primaryCols of its choice,    *)
(* some naming columns the rowData does not have, and everything that      *)
(* reads Row.primaryKey.                                                   *)
(***************************************************************************)
\* the primaryCols options: absent, a column both records have, one the
\* draft leaves undefined, and two of which neither record has the first
PrimaryCols == { << >>, << "key" >>, << "score" >>, << "status", "score" >> }

\* the data of the setColumns calls: a score, a column the records do not
\* have, and a key cleared with undefined
PrimaryDatas ==
  { << Entry("score", Num(40)) >>,
    << Entry("status", Str("ok")) >>,
    << Entry("key", Undefined), Entry("score", Num(40)) >> }

NextPrimary ==
  \/ \E rowData \in RowDatas, pc \in PrimaryCols :
       ConstructWith(Conn("conn"), "kansen", rowData, pc)
  \/ \E i \in 1..Len(rows), value \in {Conn("trx"), Null} : SetConnection(i, value)
  \/ \E i \in 1..Len(rows) : GetPrimaryKey(i)
  \/ \E i \in 1..Len(rows) : GetQuery(i)
  \/ \E i \in 1..Len(rows), data \in PrimaryDatas : SetColumns(i, data)
  \/ \E i \in 1..Len(rows) : Delete(i)
  \/ \E i \in 1..Len(rows) : Restore(i)
  \/ \E i \in 1..Len(rows) : DeletePermanently(i)
  \/ Continue

SpecPrimary == Init /\ [][NextPrimary]_vars

(***************************************************************************)
(* SpecPending: one Row, keyed by id or by key, whose caller makes calls   *)
(* without awaiting the earlier ones and assigns Row.connection meanwhile. *)
(***************************************************************************)
\* the data of the setColumns calls: a score, and the test's change of the
\* key with another score
PendingDatas ==
  { << Entry("score", Num(40)) >>,
    << Entry("key", Str("leipzig_retrofit")), Entry("score", Num(30)) >> }

InitPending ==
  /\ db = [t \in TableNames |->
             IF t = "kansen" THEN SubSeq(kansenTable, 1, NumSeed) ELSE admiralTable]
  /\ rows \in {Kept(<< >>, << ConcRow(pc) >>, << 1 >>) : pc \in {<< >>, << "key" >>}}
  /\ clock = 1
  /\ autoInc = [t \in TableNames |-> Len(db[t]) + 1]
  /\ pending = << >>
  /\ last = Idle

NextPending ==
  \/ \E i \in 1..Len(rows) : SetConnection(i, Conn("trx"))
  \/ \E i \in 1..Len(rows), data \in PendingDatas : Call("setColumns", i, data, MaxCalls)
  \/ \E i \in 1..Len(rows) : Call("delete", i, deleteData(rows[i]), MaxCalls)
  \/ \E i \in 1..Len(rows) : Call("restore", i, restoreData(rows[i]), MaxCalls)
  \/ \E i \in 1..Len(rows) : CallDeletePermanently(i, MaxCalls)
  \/ \E k \in 1..Len(pending) : Execute(k)
  \/ \E k \in 1..Len(pending) : Respond(k)
  \/ Continue

SpecPending == InitPending /\ [][NextPending]_vars

(***************************************************************************)
(* SpecFetched: Rows fetched by find and findAll from table kansen and     *)
(* from table admiral, whose soft-delete column is time_removed, and the   *)
(* soft-delete members called on them.                                     *)
(***************************************************************************)
FetchedOpts ==
  {SelectOpts(Conn("conn"), t, NoWhere, d, c, "") :
     t \in TableNames, d \in {Undefined, Bool(TRUE)},
     c \in {Undefined, Str("time_removed")}}

NextFetched ==
  \/ \E opts \in FetchedOpts : Find(opts, TRUE)
  \/ \E opts \in FetchedOpts, keep \in {<< >>, << 1 >>, << 2 >>} :
       FindAll(opts, keep, MaxRows)
  \/ \E i \in 1..Len(rows) : GetIsDeleted(i)
  \/ \E i \in 1..Len(rows) : GetPrimaryKey(i)
  \/ \E i \in 1..Len(rows) : Delete(i)
  \/ \E i \in 1..Len(rows) : Restore(i)
  \/ Continue

SpecFetched == Init /\ [][NextFetched]_vars

(***************************************************************************)
(* SpecColumns: two Rows of table kansen, the first built over a fetched   *)
(* record and the second over an object that has score as an undefined     *)
(* property and no time_deleted.  setColumns, delete, restore and          *)
(* deletePermanently are called on them, awaited or left pending, with     *)
(* data that sets a column, data that makes a column undefined and data    *)
(* naming a column the Row does not have.                                  *)
(***************************************************************************)
BuiltRows ==
  Kept(<< >>, << ConcRow(<< >>),
                 NewRow(RowOpts(Conn("conn"), "kansen", draftRowData), 0) >>,
       << 1, 2 >>)

ColumnsDatas ==
  { << Entry("score", Num(40)) >>,
    << Entry("key", Str("leipzig_retrofit")), Entry("score", Undefined) >>,
    << Entry("status", Str("sunk")) >> }

InitColumns ==
  /\ db = [t \in TableNames |->
             IF t = "kansen" THEN SubSeq(kansenTable, 1, NumSeed) ELSE admiralTable]
  /\ rows = BuiltRows
  /\ clock = 1
  /\ autoInc = [t \in TableNames |-> Len(db[t]) + 1]
  /\ pending = << >>
  /\ last = Idle

NextColumns ==
  \/ \E data \in ColumnsDatas : SetColumns(Len(rows), data)
  \/ Delete(1)
  \/ Restore(Len(rows))
  \/ DeletePermanently(Len(rows))
  \/ SetConnection(Len(rows), Conn("trx"))
  \/ \E data \in ColumnsDatas : Call("setColumns", 1, data, MaxCalls)
  \/ \E k \in 1..Len(pending) : Execute(k)
  \/ \E k \in 1..Len(pending) : Respond(k)
  \/ Continue

SpecColumns == InitColumns /\ [][NextColumns]_vars

(***************************************************************************)
(* Properties.  `last` holds the call just made, so a state predicate      *)
(* over `last` speaks of the state right after that call, and an action    *)
(* formula over last' of the step that made it.                            *)
(***************************************************************************)
\* the caller's where filter, on a stored record
WhereHolds(rec, where) ==
  ~ where.given \/ Matches(rec, Cond(where.col, where.op, where.val))

\* the positions of the table a helper call reads whose record satisfies
\* the caller's where filter
Matching(opts) ==
  {i \in 1..Len(db[opts.tableName]) : WhereHolds(db[opts.tableName][i], opts.where)}

\* the soft-delete column a helper call names, time_deleted by default
DeletedColOf(opts) ==
  IF opts.includeDeletedCol = Undefined THEN "time_deleted"
  ELSE opts.includeDeletedCol.s

\* those of Matching whose soft-delete column is null
Live(opts) ==
  {i \in Matching(opts) :
     /\ DeletedColOf(opts) \in DOMAIN db[opts.tableName][i]
     /\ db[opts.tableName][i][DeletedColOf(opts)] = Null}

\* the column countAll counts, id by default
CountByOf(opts) == IF opts.countBy = Undefined THEN "id" ELSE opts.countBy.s

\* the records among the positions S whose counted column is not null
NonNull(opts, S) == {i \in S : db[opts.tableName][i][CountByOf(opts)] # Null}

\* the rowData of the Rows a findAll or find call returned
ReturnedData ==
  IF last.op = "findAll" THEN {last.ret[i].rowData : i \in 1..Len(last.ret)}
  ELSE IF last.ret = Null THEN {}
  ELSE {last.ret.rowData}

C3_SetColumnsChecksKeys ==
  [][ (last'.op = "setColumns"
       /\ \E i \in 1..Len(last'.arg) : ~ isColumn(rows[last'.row], last'.arg[i].k))
      => LET r == rows[last'.row]
             bad == {i \in 1..Len(last'.arg) : ~ isColumn(r, last'.arg[i].k)}
             first == CHOOSE i \in bad : \A j \in bad : i <= j
         IN  /\ last'.phase = "threw"
             /\ last'.err = ColumnError(last'.arg[first].k, r.tableName)
             /\ last'.q = << >>
             /\ db' = db
             /\ rows' = rows ]_vars

\* setColumns({score: 40, status: "ok"}) was refused on a Row of record z23,
\* whose score is still 30 in rowData and in the table
C3_Witness ==
  /\ last.op = "setColumns" /\ last.phase = "threw"
  /\ last.arg = << Entry("score", Num(40)), Entry("status", Str("ok")) >>
  /\ rows[last.row].rowData.key = Str("z23")
  /\ rows[last.row].rowData.score = Num(30)
  /\ db["kansen"][3].score = Num(30)

\* the positions from..to of a sequence (none beyond its end)
Slice(seq, from, to) ==
  [i \in 1..(IF Min(to, Len(seq)) < from THEN 0 ELSE Min(to, Len(seq)) - from + 1)
     |-> seq[from + i - 1]]

\* the pages p, p+1, ... of findAll over tables, one after the other
RECURSIVE PagesFrom(_, _, _)
PagesFrom(opts, p, tables) ==
  LET page == findAll([opts EXCEPT !.pagination.page = Num(p)], tables).val IN
  IF page = << >> THEN << >> ELSE page \o PagesFrom(opts, p + 1, tables)

\* the six seeded records
SeededTables ==
  [t \in TableNames |-> IF t = "kansen" THEN kansenTable ELSE admiralTable]

\* C4: findAll with pagination {page p, limit L} (p defaulting to 1, L to
\* 20) returns the positions (p-1)*L .. p*L-1 of the unpaginated result;
\* the pages 1, 2, ... one after the other are the unpaginated result; on
\* the six seeded records and limit 4 the pages have sizes 4 and 2.
C4_Pagination ==
  /\ (last.op = "findAll" /\ last.phase = "resolved" /\ last.arg.pagination.given) =>
       LET opts == last.arg
           L == IF opts.pagination.limit = Undefined THEN 20
                ELSE opts.pagination.limit.n
           p == IF opts.pagination.page = Undefined THEN 1
                ELSE opts.pagination.page.n
           full == findAll([opts EXCEPT !.pagination = NoPagination], db).val
       IN  /\ last.ret = Slice(full, (p - 1) * L + 1, p * L)
           /\ PagesFrom(opts, 1, db) = full
  /\ LET opts == [SelectOpts(Conn("conn"), "kansen", NoWhere, Undefined, Undefined, "")
                    EXCEPT !.pagination = Pagination(Undefined, Num(4))]
         page1 == findAll(opts, SeededTables).val
         page2 == findAll([opts EXCEPT !.pagination.page = Num(2)], SeededTables).val
     IN  /\ Len(page1) = 4 /\ Len(page2) = 2
         /\ {page1[i] : i \in 1..4} \cap {page2[i] : i \in 1..2} = {}
         /\ page1 \o page2
              = findAll([opts EXCEPT !.pagination = NoPagination], SeededTables).val

\* page 2 with limit 2 of three records: the third alone
C4_Witness ==
  /\ last.op = "findAll" /\ last.phase = "resolved"
  /\ last.arg.pagination = Pagination(Num(2), Num(2))
  /\ last.arg.includeDeleted = Bool(TRUE) /\ last.arg.before = ""
  /\ Len(last.ret) = 1 /\ last.ret[1].rowData.id = Num(3)

\* C5: the current connection of a Row is never falsy, initialConn is the
\* connection given at construction, and assigning a falsy value makes the
\* current connection the one given at construction.
C5_ConnectionReset ==
  /\ \A i \in 1..Len(rows) :
       /\ Truthy(rows[i].conn) /\ rows[i].conn \in Conns
       /\ rows[i].initialConn = rows[i].ctorConn
  /\ last.op = "setConnection" =>
       IF Truthy(last.arg) THEN rows[last.row].conn = last.arg
       ELSE rows[last.row].conn = rows[last.row].ctorConn
  /\ last.op = "connection" => last.ret = rows[last.row].conn

\* null was assigned to the connection of a Row built on conn
C5_Witness ==
  /\ last.op = "setConnection" /\ last.arg = Null
  /\ rows[last.row].ctorConn = Conn("conn")
  /\ rows[last.row].conn = Conn("conn")

\* C6: getColumn(col) returns the value rowData holds for col when
\* isColumn(col) is true, fails with the error naming col and tableName
\* when it is false, and never changes rowData.
C6_GetColumn ==
  [][ last'.op = "getColumn" =>
        LET r == rows[last'.row]
            col == last'.arg
        IN  /\ rows' = rows /\ db' = db
            /\ IF isColumn(r, col)
               THEN /\ last'.phase = "returned"
                    /\ last'.ret = r.rowData[col]
                    /\ last'.err = NoError
               ELSE /\ last'.phase = "threw"
                    /\ last'.err.kind = "ColumnNotFound"
                    /\ last'.err.col = col
                    /\ last'.err.table = r.tableName ]_vars

\* getColumn("status") threw on a Row of table kansen
C6_Witness ==
  /\ last.op = "getColumn" /\ last.phase = "threw" /\ last.arg = "status"
  /\ last.err.table = "kansen"

\* C7 as amended: isColumn(col) is true iff col is a key of rowData whose
\* value is not undefined; a column whose value is null counts as present.
C7_IsColumn ==
  last.op = "isColumn" =>
    LET rowData == rows[last.row].rowData
        col == last.arg
    IN  /\ last.ret = (col \in DOMAIN rowData /\ rowData[col] # Undefined)
        /\ (col \in DOMAIN rowData /\ rowData[col] = Null) => last.ret = TRUE

\* isColumn answered true for a column holding null
C7_Witness ==
  /\ last.op = "isColumn" /\ last.arg = "time_deleted" /\ last.ret = TRUE
  /\ rows[last.row].rowData.time_deleted = Null

\* C7 as stated: isColumn(col) is true iff col is a key of rowData
C7_Original ==
  last.op = "isColumn" => last.ret = (last.arg \in DOMAIN rows[last.row].rowData)

\* C8: find(opts) returns the first Row of what findAll returns for the
\* same options, and null when that is empty; it fails only as findAll does.
C8_FindFirstOrNull ==
  last.op = "find" =>
    LET all == findAll(last.arg, db) IN
    IF all.ok
    THEN /\ last.phase = "resolved"
         /\ last.ret # Undefined
         /\ IF Len(all.val) = 0 THEN last.ret = Null ELSE last.ret = all.val[1]
    ELSE last.phase = "rejected" /\ last.err = all.err

\* find resolved to null: no record matched key = "z23" among the live ones
C8_Witness ==
  /\ last.op = "find" /\ last.phase = "resolved" /\ last.ret = Null
  /\ last.arg.where = WhereFn("key", "=", Str("z23"))

\* C9: findAll returns one Row per record of the executed query, in the
\* query's order, each bound to the connection and table name passed; when
\* no record matches it resolves to the empty sequence.
C9_FindAllWraps ==
  last.op = "findAll" =>
    LET opts == last.arg
        res == ExecSelect(last.q[1], db)
    IN  /\ last.q = << findAllQuery(opts) >>
        /\ IF res.ok
           THEN /\ last.phase = "resolved"
                /\ Len(last.ret) = Len(res.val)
                /\ \A i \in 1..Len(res.val) :
                     /\ last.ret[i].rowData = res.val[i]
                     /\ last.ret[i].conn = opts.conn
                     /\ last.ret[i].initialConn = opts.conn
                     /\ last.ret[i].tableName = opts.tableName
                /\ Matching(opts) = {} => last.ret = << >>
           ELSE last.phase = "rejected" /\ last.err.kind = "UnknownColumn"

\* findAll on trx, ordered by id descending, returned three Rows
C9_Witness ==
  /\ last.op = "findAll" /\ last.phase = "resolved"
  /\ last.arg.conn = Conn("trx") /\ last.arg.before = "orderByIdDesc"
  /\ Len(last.ret) = 3
  /\ last.ret[1].rowData.id = Num(3) /\ last.ret[3].rowData.id = Num(1)

\* every record with an odd score, and no other, is soft-deleted
OddDeleted ==
  \A i \in 1..Len(db["kansen"]) :
    (db["kansen"][i].time_deleted # Null) <=> (db["kansen"][i].score.n % 2 = 1)

CountFrom(n) ==
  SelectOpts(Conn("conn"), "kansen", WhereFn("score", ">=", Num(n)),
             Undefined, Undefined, "")

\* C10 as amended: countAll returns the number of records that satisfy the
\* where filter, whose countBy column (id by default) is not null and,
\* unless includeDeleted is true, whose soft-delete column is null; its
\* query has no limit, no offset and no before call.  On the six seeded
\* records it returns 4 for score >= 30, and 3 for score >= 20 once the
\* records with an odd score are soft-deleted.
C10_CountAll ==
  last.op = "countAll" =>
    LET opts == last.arg
        counted == IF opts.includeDeleted = Bool(TRUE) THEN Matching(opts)
                   ELSE Live(opts)
    IN  /\ last.phase = "resolved"
        /\ last.ret = Num(Cardinality(NonNull(opts, counted)))
        /\ last.q[1].limit = -1 /\ last.q[1].offset = 0 /\ last.q[1].order = ""
        /\ \A i \in 1..Len(last.q[1].calls) :
             last.q[1].calls[i] \notin {"before", "limit", "offset"}
        /\ (opts = CountFrom(30) /\ db["kansen"] = kansenTable) => last.ret = Num(4)
        /\ (opts = CountFrom(20) /\ OddDeleted) => last.ret = Num(3)

\* the scenario's second count, after delete() on the Rows of both records
\* with an odd score
C10_Witness ==
  /\ last.op = "countAll" /\ last.arg = CountFrom(20) /\ OddDeleted
  /\ last.ret = Num(3)
  /\ Len(rows) = 2 /\ \A i \in 1..2 : rows[i].rowData.time_deleted = RawNow

\* C10 as stated: the count is the number of records that satisfy the
\* where filter and, unless includeDeleted is true, are not soft-deleted
C10_Original ==
  (last.op = "countAll" /\ last.phase = "resolved") =>
    last.ret = Num(Cardinality(IF last.arg.includeDeleted = Bool(TRUE)
                               THEN Matching(last.arg) ELSE Live(last.arg)))

(***************************************************************************)
(* Soft delete.                                                            *)
(***************************************************************************)
\* the stored record rec has the primary key of Row r
HasKeyOf(r, rec) ==
  \A i \in 1..Len(r.primaryCols) :
    /\ r.primaryCols[i] \in DOMAIN rec
    /\ Matches(rec, Cond(r.primaryCols[i], "=", Prop(r.rowData, r.primaryCols[i])))

\* the positions of r's table whose record has the primary key of r
RecordsOf(r) ==
  {i \in 1..Len(db[r.tableName]) : HasKeyOf(r, db[r.tableName][i])}

\* find on r's connection and table, by r's identifier, deleted included
Refetch(r) ==
  find(SelectOpts(r.conn, r.tableName, WhereFn(r.idCol, "=", r.rowData[r.idCol]),
                  Bool(TRUE), Undefined, ""), db)

\* C11: after delete() completes, the update carried the server-time
\* expression, the time-deleted column of the Row's stored record holds the
\* server's time (not null), and a Row re-fetched with includeDeleted true
\* has isDeleted true; after restore() completes the stored column is null
\* and a re-fetched Row has isDeleted false.
C11_DeleteRestore ==
  (last.op \in {"delete", "restore"} /\ last.phase = "resolved") =>
    LET r == rows[last.row]
        col == r.timeDeletedCol
        again == Refetch(r)
    IN  /\ Len(last.q) = 1 /\ last.q[1].method = "update"
        /\ DOMAIN last.q[1].data = {col}
        /\ again.ok
        /\ (again.val = Null) <=> (RecordsOf(r) = {})
        /\ IF last.op = "delete"
           THEN /\ last.q[1].data[col] = RawNow
                /\ \A i \in RecordsOf(r) :
                     /\ db[r.tableName][i][col] # Null
                     /\ db[r.tableName][i][col] = Date(clock - 1)
                /\ again.val # Null => isDeleted(again.val) = Return(Bool(TRUE))
           ELSE /\ last.q[1].data[col] = Null
                /\ \A i \in RecordsOf(r) : db[r.tableName][i][col] = Null
                /\ again.val # Null => isDeleted(again.val) = Return(Bool(FALSE))

\* restore() completed on the Row of a stored record that delete() had
\* soft-deleted before
C11_Witness ==
  /\ last.op = "restore" /\ last.phase = "resolved"
  /\ clock > 1
  /\ RecordsOf(rows[last.row]) # {}
  /\ Refetch(rows[last.row]).val # Null

\* C12: on a Row whose primary columns are present, restore() with the
\* time-deleted column already null completes and leaves the column null in
\* rowData and in the stored record; delete() with the column already
\* non-null completes and sets the column again, to the server's new time.
C12_SoftDeleteTwice ==
  [][ (last'.op \in {"delete", "restore"} /\ primaryKey(rows[last'.row]).ok
       /\ isColumn(rows[last'.row], rows[last'.row].timeDeletedCol))
      => LET i == last'.row
             r == rows[i]
             col == r.timeDeletedCol
             t == r.tableName
             recs == {j \in 1..Len(db[t]) : HasKeyOf(r, db[t][j])}
         IN  /\ (last'.op = "restore" /\ r.rowData[col] = Null) =>
                  /\ last'.phase = "resolved"
                  /\ rows'[i].rowData[col] = Null
                  /\ \A j \in recs : db'[t][j][col] = Null
             /\ (last'.op = "delete" /\ r.rowData[col] # Null) =>
                  /\ last'.phase = "resolved"
                  /\ rows'[i].rowData[col] = RawNow
                  /\ \A j \in recs :
                       /\ db'[t][j][col] = Date(clock)
                       /\ db'[t][j][col] # db[t][j][col] ]_vars

\* delete() completed a second time on the Row of a stored record, whose
\* time-deleted column now holds the second reading of the server's time
C12_Witness ==
  /\ last.op = "delete" /\ last.phase = "resolved"
  /\ RecordsOf(rows[last.row]) # {}
  /\ \A i \in RecordsOf(rows[last.row]) :
       db[rows[last.row].tableName][i].time_deleted = Date(2)

(***************************************************************************)
(* The primary key.                                                        *)
(***************************************************************************)
\* find on r's connection and table by r's first primary column, deleted
\* records included, over the tables given
FindByKey(r, tables) ==
  find(SelectOpts(r.conn, r.tableName,
                  WhereFn(r.primaryCols[1], "=", r.rowData[r.primaryCols[1]]),
                  Bool(TRUE), Undefined, ""), tables)

\* C13: deletePermanently() removes from the Row's table exactly the
\* records whose primary columns equal the Row's primaryKey, after which
\* find by that key returns null even with includeDeleted true; rowData,
\* the connection and every other record are unchanged.
C13_DeletePermanently ==
  [][ (last'.op = "deletePermanently" /\ primaryKey(rows[last'.row]).ok)
      => LET r == rows[last'.row]
             t == r.tableName
         IN  /\ last'.phase = "resolved"
             /\ Len(last'.q) = 1 /\ last'.q[1].method = "delete"
             /\ db'[t] = SelectSeq(db[t], LAMBDA rec : ~ HasKeyOf(r, rec))
             /\ \A u \in TableNames \ {t} : db'[u] = db[u]
             /\ FindByKey(r, db') = Return(Null)
             /\ rows' = rows ]_vars

\* deletePermanently() on a Row keyed by score removed two records at once
C13_Witness ==
  /\ last.op = "deletePermanently" /\ last.phase = "resolved"
  /\ rows[last.row].primaryCols = << "score" >>
  /\ Len(db["kansen"]) = 1

\* C14: primaryKey returns a mapping whose keys are exactly primaryCols
\* (the identifier column alone by default) and whose values are the
\* values rowData holds for them now; it fails as getColumn does when
\* rowData lacks one of them.
C14_PrimaryKey ==
  last.op = "primaryKey" =>
    LET r == rows[last.row]
        cols == {r.primaryCols[i] : i \in 1..Len(r.primaryCols)}
    IN  IF \A c \in cols : isColumn(r, c)
        THEN /\ last.phase = "returned"
             /\ DOMAIN last.ret = cols
             /\ \A c \in cols : last.ret[c] = r.rowData[c]
             /\ \A c \in DOMAIN r.rowData \ cols : c \notin DOMAIN last.ret
        ELSE /\ last.phase = "threw"
             /\ last.err.kind = "ColumnNotFound"
             /\ last.err.col \in cols /\ ~ isColumn(r, last.err.col)

\* primaryKey of a Row keyed by key, after setColumns changed the key
C14_Witness ==
  /\ last.op = "primaryKey" /\ last.phase = "returned"
  /\ rows[last.row].primaryCols = << "key" >>
  /\ DOMAIN last.ret = {"key"}
  /\ last.ret["key"] = Str("leipzig_retrofit")

\* the record rec after `SET data`, undefined values left out
WithData(rec, data) ==
  [c \in DOMAIN rec |->
     IF c \in DOMAIN data /\ data[c] # Undefined THEN data[c] ELSE rec[c]]

\* the setColumns data of the custom primary key test
RetrofitData ==
  << Entry("key", Str("leipzig_retrofit")), Entry("score", Num(30)) >>

\* the positions of table kansen whose key is k, in the tables given
WithKey(tables, k) ==
  {j \in 1..Len(tables["kansen"]) : tables["kansen"][j].key = Str(k)}

\* C15: a setColumns that completes changes exactly the stored records
\* whose primary columns equal the Row's primaryKey as it was at the call,
\* each taking the values of data, and leaves every other record and table
\* unchanged; one that fails changes no record.  With primaryCols [key] and
\* the key changed from leipzig to leipzig_retrofit, exactly one record has
\* the new key afterwards.
C15_SetColumnsScope ==
  [][ last'.op = "setColumns"
      => LET r == rows[last'.row]
             t == r.tableName
             data == DataObj(last'.arg)
         IN  IF last'.phase = "resolved"
             THEN /\ Len(db'[t]) = Len(db[t])
                  /\ \A j \in 1..Len(db[t]) :
                       db'[t][j] = IF HasKeyOf(r, db[t][j])
                                   THEN WithData(db[t][j], data)
                                   ELSE db[t][j]
                  /\ \A u \in TableNames \ {t} : db'[u] = db[u]
                  /\ ( /\ r.primaryCols = << "key" >>
                       /\ r.rowData.key = Str("leipzig")
                       /\ last'.arg = RetrofitData
                       /\ Cardinality(WithKey(db, "leipzig")) = 1
                       /\ WithKey(db, "leipzig_retrofit") = {} )
                     => Cardinality(WithKey(db', "leipzig_retrofit")) = 1
             ELSE db' = db ]_vars

\* the test's scenario: the Row keyed by key leipzig was given the new key,
\* and one record holds it
C15_Witness ==
  /\ last.op = "setColumns" /\ last.phase = "resolved"
  /\ last.arg = RetrofitData
  /\ rows[last.row].primaryCols = << "key" >>
  /\ rows[last.row].rowData.id = Num(2)
  /\ Cardinality(WithKey(db, "leipzig_retrofit")) = 1
  /\ WithKey(db, "leipzig") = {}

(***************************************************************************)
(* Inserting.                                                              *)
(***************************************************************************)
\* find on table kansen with a where on the identifier id, over the
\* connection of the call in `last`
FindById(id, includeDeleted) ==
  find(SelectOpts(last.q[1].conn, "kansen", WhereFn(ID_COL, "=", id),
                  includeDeleted, Undefined, ""), db)

FindByKeyCol(k, includeDeleted) ==
  find(SelectOpts(last.q[1].conn, "kansen", WhereFn("key", "=", k),
                  includeDeleted, Undefined, ""), db)

\* the stored records of the n records inserted last
Inserted(n) == SubSeq(db["kansen"], Len(db["kansen"]) - n + 1, Len(db["kansen"]))

AnsweredAt(a) == CHOOSE k \in 1..Len(pending) : pending[k].answer = a

\* rowData after the data of the calls answered a-th to n-th that were made
\* on the Rows owners and resolved
RECURSIVE AppliedTo(_, _, _, _)
AppliedTo(rowData, a, n, owners) ==
  IF a > n THEN rowData
  ELSE LET c == pending[AnsweredAt(a)] IN
       AppliedTo(IF c.err = "" /\ c.row \in owners
                 THEN ObjectAssign(rowData, DataObj(c.data)) ELSE rowData,
                 a + 1, n, owners)

NumAnswered == Cardinality(Past({"sent", "executed"}))

\* the Rows built over the rowData object of Row i
SameObject(i) == {j \in 1..Len(rows) : rows[j].obj = rows[i].obj}

\* C18 as amended: the rowData of a Row is its value at construction
\* changed by the successfully completed setColumns, setColumn, delete and
\* restore calls made on that Row or on a Row built over the same rowData
\* object, in the order they completed, and by nothing else: no call on a
\* Row with an object of its own, no query helper, no failed or pending call.
C18_RowDataChanges ==
  \A i \in 1..Len(rows) :
    rows[i].rowData = AppliedTo(kansenTable[ConcRecord], 1, NumAnswered, SameObject(i))

\* the first Row's score was set while the second Row, with an object of
\* its own, keeps the fetched score although its own update was executed
\* and is not answered yet
C18_Witness ==
  /\ Len(rows) = 2 /\ rows[1].obj # rows[2].obj
  /\ rows[1].rowData.score = Num(40) /\ rows[2].rowData.score = Num(20)
  /\ \E k \in 1..Len(pending) :
       pending[k].row = 2 /\ pending[k].stage = "executed" /\ pending[k].err = ""
  /\ \E k \in 1..Len(pending) :
       pending[k].row = 1 /\ pending[k].stage = "answered" /\ pending[k].err = ""

\* C18 as stated: only the successfully completed calls made on the Row
\* itself change its rowData
C18_Original ==
  \A i \in 1..Len(rows) :
    rows[i].rowData = AppliedTo(kansenTable[ConcRecord], 1, NumAnswered, {i})

\* two setColumns calls on two separate Rows of the record, the second made
\* while the first was not answered, and no other update executed
ConcurrentPairs ==
  {p \in (1..Len(pending)) \X (1..Len(pending)) :
     /\ p[1] < p[2]
     /\ pending[p[1]].op = "setColumns" /\ pending[p[2]].op = "setColumns"
     /\ pending[p[1]].row # pending[p[2]].row
     /\ p[1] \in pending[p[2]].open
     /\ Past({"sent"}) \subseteq {p[1], p[2]}}

\* of a pair, the call whose update was committed first, and the one whose
\* update was committed last
Earlier(p) == IF pending[p[1]].commit < pending[p[2]].commit THEN p[1] ELSE p[2]

Later(p) == IF pending[p[1]].commit < pending[p[2]].commit THEN p[2] ELSE p[1]

\* the stored record holds the values the k-th call's update set
HoldsValuesOf(k) ==
  \A c \in SetList(pending[k].q.data) :
    db["kansen"][ConcRecord][c] = pending[k].q.data[c]

\* the update of call e changes a column of the primary key that call l's
\* query is scoped by
ChangesKeyOf(e, l) ==
  \E c \in SetList(pending[e].q.data) :
    /\ c \in {rows[pending[l].row].primaryCols[i] :
                i \in 1..Len(rows[pending[l].row].primaryCols)}
    /\ pending[e].q.data[c] # kansenTable[ConcRecord][c]

\* the Row of call k holds, in every column the call set, the call's value
KeepsOwn(k) ==
  \A c \in DOMAIN DataObj(pending[k].data) :
    Prop(rows[pending[k].row].rowData, c) = DataObj(pending[k].data)[c]

\* C19 as amended: of two concurrent setColumns calls on two separate Rows
\* of one record neither fails; the stored record ends with the values of
\* the update committed last, unless the update committed first changed a
\* column of the other Row's primary key: then the later update matches no
\* record and the record keeps the values of the first.  Rows with a
\* rowData object each keep the values of their own call; Rows built over
\* one object both end with the values of the call answered last.
C19_ConcurrentSetColumns ==
  \A p \in ConcurrentPairs :
    LET a == pending[p[1]]
        b == pending[p[2]]
    IN  /\ a.err = "" /\ b.err = ""
        /\ (a.stage # "sent" /\ b.stage # "sent") =>
             /\ pending[Earlier(p)].matched = 1
             /\ (pending[Later(p)].matched = 0) <=> ChangesKeyOf(Earlier(p), Later(p))
             /\ IF pending[Later(p)].matched = 0
                THEN HoldsValuesOf(Earlier(p)) ELSE HoldsValuesOf(Later(p))
        /\ (a.stage = "answered" /\ b.stage = "answered" /\ NumAnswered = 2) =>
             IF rows[a.row].obj # rows[b.row].obj
             THEN KeepsOwn(p[1]) /\ KeepsOwn(p[2])
             ELSE KeepsOwn(IF a.answer > b.answer THEN p[1] ELSE p[2])

\* two Rows over one object: the first Row set the score to 40, the second
\* concurrently set it to 30 and was answered last, and the first Row now
\* reads the 30 written through the second
C19_Witness ==
  \E p \in ConcurrentPairs :
    LET a == pending[p[1]]
        b == pending[p[2]]
    IN  /\ a.stage = "answered" /\ b.stage = "answered" /\ a.answer < b.answer
        /\ a.row = 1 /\ DataObj(a.data) = [score |-> Num(40)]
        /\ "score" \in DOMAIN DataObj(b.data) /\ DataObj(b.data).score = Num(30)
        /\ getColumn(rows[1], "score") = Return(Num(30))

\* C19 as stated, its first two parts: neither call fails and the stored
\* record ends with the values of the update that committed last
C19_Original ==
  \A p \in ConcurrentPairs :
    /\ pending[p[1]].err = "" /\ pending[p[2]].err = ""
    /\ (pending[p[1]].stage # "sent" /\ pending[p[2]].stage # "sent") =>
         HoldsValuesOf(Later(p))

\* the operations that await a query
QueryOps ==
  {"findAll", "find", "countAll", "insert", "insertAll", "setColumns", "setColumn",
   "delete", "restore", "deletePermanently"}

\* the error the connection ends the query q with, "" if it succeeds
ErrorOf(q) ==
  IF q.method = "update" THEN UpdateError(q)
  ELSE IF q.method = "insert" THEN InsertError(q)
  ELSE IF q.method = "delete" THEN DeleteError(q)
  ELSE IF ConnError(q) # "" THEN ConnError(q)
  ELSE IF UnknownColumn(q) THEN "UnknownColumn"
  ELSE ""

\* C20: an operation whose query fails has issued that one query and no
\* other, is rejected with the error of that query, and leaves the rowData
\* of every Row, and the stored records, as they were before the call.
C20_FailurePassedOn ==
  [][(last'.op \in QueryOps /\ last' # last /\ Len(last'.q) > 0
        /\ ErrorOf(last'.q[1]) # "") =>
       /\ Len(last'.q) = 1
       /\ last'.phase = "rejected"
       /\ last'.err = QueryError(ErrorOf(last'.q[1]), last'.q[1].table)
       /\ rows' = rows
       /\ db' = db /\ autoInc' = autoInc]_vars

\* a Row fetched over a working connection was given the lost one, and its
\* setColumns was rejected with the connection's error, the score it read
\* before still in place
C20_Witness ==
  /\ last.op = "setColumns" /\ last.phase = "rejected"
  /\ last.err = QueryError("ConnectionLost", "kansen")
  /\ last.arg = << Entry("score", Num(40)) >>
  /\ Len(last.q) = 1 /\ last.q[1].conn = LostConn
  /\ rows[last.row].initialConn = Conn("conn")
  /\ getColumn(rows[last.row], "score") = Return(Num(30))

\* C21: a findAll call that does not pass includeDeleted returns what the
\* same call with includeDeleted true returns.
C21_DefaultIncludeDeleted ==
  (last.op = "findAll" /\ last.phase = "resolved"
     /\ last.arg.includeDeleted = Undefined) =>
    last.ret = findAll([last.arg EXCEPT !.includeDeleted = Bool(TRUE)], db).val

\* what setColumns(data) on Row i does from the current state: the update
\* issued, the outcome, and the rows and records afterwards
SetColumnsOutcome(i, data) ==
  LET res == setColumnsQuery(rows[i], data)
      e == IF res.ok THEN UpdateError(res.val) ELSE ""
      done == res.ok /\ e = ""
  IN  [q |-> IF res.ok THEN << res.val >> ELSE << >>,
       phase |-> IF ~ res.ok THEN "threw" ELSE IF e # "" THEN "rejected" ELSE "resolved",
       err |-> IF ~ res.ok THEN res.err
               ELSE IF e # "" THEN QueryError(e, res.val.table) ELSE NoError,
       rows |-> IF done THEN Merged(i, data) ELSE rows,
       db |-> IF done THEN [db EXCEPT ![res.val.table] = UpdateRecs(res.val, @, clock)]
              ELSE db]

\* C22: setColumn(col, value) issues the update, ends with the rowData and
\* the stored records, and fails with the error, that setColumns with the
\* one entry {[col]: value} does from the same state.
C22_SetColumnIsSetColumns ==
  [][(last'.op = "setColumn" /\ last' # last) =>
       LET same == SetColumnsOutcome(last'.row,
                                     << Entry(last'.arg[1].s, last'.arg[2]) >>)
       IN  /\ last'.q = same.q
           /\ last'.phase = same.phase /\ last'.err = same.err
           /\ rows' = same.rows
           /\ db' = same.db]_vars

\* setColumn("score", 40) on the fetched Row of z23 resolved: the Row and
\* the stored record hold 40
C22_Witness ==
  /\ last.op = "setColumn" /\ last.phase = "resolved"
  /\ last.arg = << Str("score"), Num(40) >>
  /\ rows[last.row].rowData.key = Str("z23")
  /\ getColumn(rows[last.row], "score") = Return(Num(40))
  /\ \E j \in 1..Len(db["kansen"]) :
       db["kansen"][j].key = Str("z23") /\ db["kansen"][j].score = Num(40)

\* the conditions `col = value` of a query on the columns cols of rowData
KeyConds(cols, rowData) == [i \in 1..Len(cols) |-> Cond(cols[i], "=", rowData[cols[i]])]

\* C23: reading Row.query returns a query on tableName, on the connection
\* current at the read, filtered by the current value of every primary
\* column; nothing is executed, and the Rows and the records stay as they
\* were.
C23_QueryGetter ==
  [][(last'.op = "query" /\ last' # last) =>
       LET r == rows[last'.row] IN
       /\ last'.q = << >>
       /\ rows' = rows /\ db' = db
       /\ (\A i \in 1..Len(r.primaryCols) : isColumn(r, r.primaryCols[i])) =>
            /\ last'.phase = "returned"
            /\ last'.ret.table = r.tableName
            /\ last'.ret.conn = r.conn
            /\ last'.ret.method = "select"
            /\ last'.ret.wheres = KeyConds(r.primaryCols, r.rowData)]_vars

\* a Row built on conn was given trx, its score was set to 40, and its
\* query, keyed by score, is on trx and filters by the 40
C23_Witness ==
  /\ last.op = "query" /\ last.phase = "returned"
  /\ rows[last.row].initialConn = Conn("conn")
  /\ last.ret.conn = Conn("trx")
  /\ last.ret.wheres = << Cond("score", "=", Num(40)) >>
  /\ last.ret.table = "kansen"

\* the members that read Row.primaryKey
KeyedOps == {"primaryKey", "query", "setColumns", "delete", "restore", "deletePermanently"}

\* the columns of cols, in order, that rowData does not have
MissingOf(r, cols) == SelectSeq(cols, LAMBDA c : ~ isColumn(r, c))

\* the keys of the data a call sends: those of the argument for setColumns,
\* the time-deleted column for delete and restore, none otherwise
DataKeysOf(r, step) ==
  IF step.op = "setColumns" THEN Keys(step.arg)
  ELSE IF step.op \in {"delete", "restore"} THEN << r.timeDeletedCol >>
  ELSE << >>

\* C24 as amended: when a column of primaryCols is not present in rowData,
\* primaryKey, query, setColumns, delete, restore and deletePermanently
\* fail with a column-not-found error and issue nothing to the database;
\* the error names the first such column of primaryCols, except that
\* setColumns, delete and restore name the first key of their data that is
\* not a column of rowData when there is one.
C24_MissingPrimaryColumn ==
  [][(last'.op \in KeyedOps /\ last' # last
        /\ MissingOf(rows[last'.row], rows[last'.row].primaryCols) # << >>) =>
       LET r == rows[last'.row]
           badData == MissingOf(r, DataKeysOf(r, last'))
           badKey == MissingOf(r, r.primaryCols)
       IN  /\ last'.phase = "threw"
           /\ last'.err = ColumnError(IF badData # << >> THEN Head(badData)
                                      ELSE Head(badKey), r.tableName)
           /\ last'.q = << >>
           /\ db' = db /\ rows' = rows]_vars

\* deletePermanently on a Row keyed by status and score, neither of which
\* its record has, failed naming status, and the records are all there
C24_Witness ==
  /\ last.op = "deletePermanently" /\ last.phase = "threw"
  /\ rows[last.row].primaryCols = << "status", "score" >>
  /\ ~ isColumn(rows[last.row], "score")
  /\ last.err = ColumnError("status", "kansen")
  /\ last.q = << >>
  /\ Len(db["kansen"]) = NumSeed

\* C24 as stated: the error names a column of primaryCols that is not
\* present in rowData
C24_Original ==
  [][(last'.op \in KeyedOps /\ last' # last
        /\ MissingOf(rows[last'.row], rows[last'.row].primaryCols) # << >>) =>
       /\ last'.phase = "threw"
       /\ last'.err.kind = "ColumnNotFound"
       /\ \E i \in 1..Len(rows[last'.row].primaryCols) :
            /\ ~ isColumn(rows[last'.row], rows[last'.row].primaryCols[i])
            /\ last'.err.col = rows[last'.row].primaryCols[i]
       /\ last'.q = << >>
       /\ db' = db]_vars

\* the builder methods findAll calls for opts, in the order claimed
ClaimedCalls(opts) ==
  (IF opts.where.given THEN << "where" >> ELSE << >>)
  \o (IF Truthy(opts.includeDeleted) THEN << >> ELSE << "whereNull" >>)
  \o (IF opts.pagination.given THEN << "limit", "offset" >> ELSE << >>)
  \o (IF opts.before = "" THEN << >>
      ELSE IF opts.before = "orderByIdDesc" THEN << "before", "orderBy" >>
      ELSE << "before" >>)

\* C25: findAll calls the builder in one order whatever the options: where
\* (if given), whereNull (unless includeDeleted is true), limit and offset
\* (if pagination is given), then the before callback (if given); the one
\* query executed is the builder as before left it, so the Rows returned
\* are its result.
C25_ClauseOrder ==
  last.op = "findAll" =>
    /\ Len(last.q) = 1
    /\ last.q[1].calls = ClaimedCalls(last.arg)
    /\ (last.arg.before = "orderByIdDesc") => last.q[1].order = ID_COL
    /\ last.phase = "resolved" =>
         /\ Len(last.ret) = Len(SelectRecs(last.q[1], db[last.arg.tableName]))
         /\ \A i \in 1..Len(last.ret) :
              last.ret[i].rowData = SelectRecs(last.q[1], db[last.arg.tableName])[i]

\* a findAll with where, pagination and before made all five calls, and
\* the one Row of its second page is the record the descending order puts
\* second
C25_Witness ==
  /\ last.op = "findAll" /\ last.phase = "resolved"
  /\ last.q[1].calls = << "where", "whereNull", "limit", "offset", "before", "orderBy" >>
  /\ Len(last.ret) = 1
  /\ last.ret[1].rowData.key = Str("leipzig")

\* C26: the query the server executes for a setColumns, delete, restore or
\* deletePermanently call is on the connection, and scoped by the primary
\* key, that the Row had when the call was made, whatever was assigned to
\* Row.connection and whichever other call completed meanwhile.
C26_BoundAtCall ==
  \A k \in Past({"sent"}) :
    LET c == pending[k] IN
    /\ c.ran.conn = c.conn
    /\ c.ran.table = rows[c.row].tableName
    /\ c.ran.wheres = KeyConds(rows[c.row].primaryCols, c.key)

\* a setColumns was sent on conn by a Row keyed by key; before it was
\* executed the Row was given trx and an earlier call changed its key; the
\* update ran on conn, scoped by the old key
C26_Witness ==
  \E k \in Past({"sent"}) :
    /\ pending[k].op = "setColumns"
    /\ pending[k].ran.conn = Conn("conn")
    /\ pending[k].ran.wheres = << Cond("key", "=", Str("leipzig")) >>
    /\ connection(rows[pending[k].row]) = Conn("trx")
    /\ getColumn(rows[pending[k].row], "key") = Return(Str("leipzig_retrofit"))

\* two setColumns calls on one Row that both set the score, the second made
\* while the first was not answered, and no other call executed
SameRowPairs ==
  {p \in (1..Len(pending)) \X (1..Len(pending)) :
     /\ p[1] < p[2]
     /\ pending[p[1]].op = "setColumns" /\ pending[p[2]].op = "setColumns"
     /\ pending[p[1]].row = pending[p[2]].row
     /\ p[1] \in pending[p[2]].open
     /\ Past({"sent"}) \subseteq {p[1], p[2]}}

\* the score the k-th call writes
ScoreOf(k) == DataObj(pending[k].data).score

\* of a pair, the call answered last
LastAnswered(p) == IF pending[p[1]].answer > pending[p[2]].answer THEN p[1] ELSE p[2]

\* C30 as amended: after two setColumns calls on one Row that were pending
\* at once and write the same column have both completed, the Row holds
\* the value of the call answered last; the record holds the value of the
\* update committed last, unless the update committed first changed a
\* primary column of the Row, in which case the later update matched no
\* record and the record holds the value of the first; when the value
\* stored is not that of the call answered last, the Row and the record
\* disagree.
C30_SameRowSetColumns ==
  \A p \in SameRowPairs :
    (pending[p[1]].stage = "answered" /\ pending[p[2]].stage = "answered") =>
      LET r == rows[pending[p[1]].row]
          rec == db["kansen"][ConcRecord]
          kept == IF pending[Later(p)].matched = 0 THEN Earlier(p) ELSE Later(p)
      IN  /\ pending[p[1]].err = "" /\ pending[p[2]].err = ""
          /\ getColumn(r, "score") = Return(ScoreOf(LastAnswered(p)))
          /\ (pending[Later(p)].matched = 0) <=> ChangesKeyOf(Earlier(p), Later(p))
          /\ rec.score = ScoreOf(kept)
          /\ (kept # LastAnswered(p) /\ ScoreOf(p[1]) # ScoreOf(p[2])) =>
               getColumn(r, "score") # Return(rec.score)

\* the Row keyed by id set the score to 40 and to 30 at once; 40 was
\* committed first and answered last: the Row reads 40, the record holds 30
C30_Witness ==
  \E p \in SameRowPairs :
    /\ pending[p[1]].stage = "answered" /\ pending[p[2]].stage = "answered"
    /\ rows[pending[p[1]].row].primaryCols = << ID_COL >>
    /\ ScoreOf(Earlier(p)) = Num(40) /\ ScoreOf(Later(p)) = Num(30)
    /\ LastAnswered(p) = Earlier(p)
    /\ getColumn(rows[pending[p[1]].row], "score") = Return(Num(40))
    /\ db["kansen"][ConcRecord].score = Num(30)

\* C30 as stated: the Row holds the value of the call answered last and
\* the record the value of the update committed last
C30_Original ==
  \A p \in SameRowPairs :
    (pending[p[1]].stage = "answered" /\ pending[p[2]].stage = "answered") =>
      /\ getColumn(rows[pending[p[1]].row], "score") = Return(ScoreOf(LastAnswered(p)))
      /\ db["kansen"][ConcRecord].score = ScoreOf(Later(p))

\* C27: a setColumns whose update matches no record completes successfully
\* all the same: its data is merged into rowData while the stored records
\* stay as they were.
C27_NoMatchStillMerges ==
  [][(last'.op = "setColumns" /\ last' # last /\ Len(last'.q) = 1
        /\ UpdateError(last'.q[1]) = ""
        /\ Filtered(last'.q[1], db[last'.q[1].table]) = << >>) =>
       /\ last'.phase = "resolved"
       /\ db' = db
       /\ rows'[last'.row].rowData =
            ObjectAssign(rows[last'.row].rowData, DataObj(last'.arg))
       /\ \A c \in SetList(DataObj(last'.arg)) :
            getColumn(rows'[last'.row], c) = Return(DataObj(last'.arg)[c])]_vars

\* the record of a Row was removed through deletePermanently; a later
\* setColumns on the Row resolved, and the Row reads the score 20 that no
\* update stored
C27_Witness ==
  /\ last.op = "setColumns" /\ last.phase = "resolved"
  /\ last.arg = << Entry("score", Num(20)) >>
  /\ Len(db["kansen"]) = NumSeed - 1
  /\ rows[last.row].primaryCols = << ID_COL >>
  /\ \A j \in 1..Len(db["kansen"]) : db["kansen"][j].id # rows[last.row].rowData.id
  /\ rows[last.row].rowData.id = Num(NumSeed)
  /\ getColumn(rows[last.row], "score") = Return(Num(20))

\* r has the default column names and the default primary key
HasDefaults(r) ==
  /\ r.idCol = ID_COL
  /\ r.timeCreatedCol = TIME_CREATED_COL
  /\ r.timeUpdatedCol = TIME_UPDATED_COL
  /\ r.timeDeletedCol = TIME_DELETED_COL
  /\ r.primaryCols = << ID_COL >>

\* C28: the Rows that find and findAll return have the default column
\* names and the primary key [id] whatever includeDeletedCol was; delete,
\* restore and isDeleted on such a Row go by the column time_deleted, and
\* fail with column-not-found naming time_deleted, nothing being sent,
\* when the fetched record does not have it.
C28_FetchedRowDefaults ==
  [][
      /\ (last'.op = "findAll" /\ last'.phase = "resolved") =>
          (\A i \in 1..Len(last'.ret) : HasDefaults(last'.ret[i]))
      /\ (last'.op = "find" /\ last'.phase = "resolved" /\ last'.ret # Null) =>
          HasDefaults(last'.ret)
      /\ (\A j \in 1..Len(rows') : HasDefaults(rows'[j]))
      /\ (last'.op \in {"delete", "restore", "isDeleted"} /\ last' # last) =>
          LET r == rows[last'.row] IN
          IF ~ isColumn(r, TIME_DELETED_COL)
          THEN /\ last'.phase = "threw"
               /\ last'.err = ColumnError(TIME_DELETED_COL, r.tableName)
               /\ last'.q = << >>
               /\ db' = db /\ rows' = rows
          ELSE IF last'.op = "isDeleted"
          THEN last'.ret = Bool(Truthy(r.rowData[TIME_DELETED_COL]))
          ELSE /\ Len(last'.q) = 1
               /\ DOMAIN last'.q[1].data = {TIME_DELETED_COL}
    ]_vars

\* a Row found in table admiral with includeDeletedCol time_removed was
\* asked to delete: the call failed naming time_deleted
C28_Witness ==
  /\ last.op = "delete" /\ last.phase = "threw"
  /\ rows[last.row].tableName = "admiral"
  /\ "time_removed" \in DOMAIN rows[last.row].rowData
  /\ last.err = ColumnError("time_deleted", "admiral")
  /\ rows[last.row].timeDeletedCol = "time_deleted"

\* C29: a column a Row did not have when it was constructed is never a
\* column of it later; its table name, primary columns and configured
\* column names stay those of its construction; and a settled setColumns
\* leaves every column of rowData that is not a key of its data as it was.
C29_NoColumnAdded ==
  [][\A i \in 1..Len(rows') :
       /\ i <= Len(BuiltRows)
       /\ \A c \in Columns : ~ isColumn(BuiltRows[i], c) => ~ isColumn(rows'[i], c)
       /\ rows'[i].tableName = BuiltRows[i].tableName
       /\ rows'[i].primaryCols = BuiltRows[i].primaryCols
       /\ rows'[i].idCol = BuiltRows[i].idCol
       /\ rows'[i].timeCreatedCol = BuiltRows[i].timeCreatedCol
       /\ rows'[i].timeUpdatedCol = BuiltRows[i].timeUpdatedCol
       /\ rows'[i].timeDeletedCol = BuiltRows[i].timeDeletedCol
       /\ (last'.op = "setColumns" /\ last' # last) =>
            \A c \in DOMAIN rows[i].rowData \ {last'.arg[j].k : j \in 1..Len(last'.arg)} :
              /\ c \in DOMAIN rows'[i].rowData
              /\ rows'[i].rowData[c] = rows[i].rowData[c]]_vars

\* the Row built with score undefined was asked to set score and refused,
\* after the Row built over the fetched record lost its column score to a
\* setColumns that made it undefined and changed key
C29_Witness ==
  /\ last.op = "setColumns" /\ last.phase = "threw" /\ last.row = 2
  /\ last.arg = << Entry("score", Num(40)) >>
  /\ ~ isColumn(rows[2], "score")
  /\ isColumn(BuiltRows[1], "score") /\ ~ isColumn(rows[1], "score")
  /\ rows[1].rowData["key"] = Str("leipzig_retrofit")
  /\ rows[1].rowData["id"] = BuiltRows[1].rowData["id"]

====
